---------------------------- MODULE Spec2Model ----------------------------
(***************************************************************************)
(* A model of the cutting-stock optimisation core of cur-back: the piece   *)
(* preprocessor and geometry kernel (lib/utils), the four placement        *)
(* strategies (lib/algorithms) and the strategy manager with its fallback  *)
(* chain (lib/algorithms/algorithm-manager.ts).                            *)
(*                                                                         *)
(* Numbers are integers.  An efficiency, which the code computes as the    *)
(* floating-point quotient usedArea / totalArea, is kept as the pair       *)
(* [num, den] of that quotient, so comparisons of efficiencies are exact.  *)
(***************************************************************************)
EXTENDS Integers, Sequences, FiniteSets, TLC

VARIABLES
    request,      \* the OptimizationRequest: [pieces, panels, settings]
    preferred,    \* executeWithFallback's preferredAlgorithm argument
    pc,           \* control point of the call
    algorithm,    \* name of the strategy being executed
    fallbackLeft, \* fallback names still to be tried (catch block's loop)
    firstError,   \* message of the error caught from the first strategy
    attempted,    \* names of the strategies executed so far, in order
    ret,          \* what the strategy's execute returned or raised
    outcome,      \* what executeWithFallback returned or raised
    pieces,       \* runOptimization's pieces parameter
    sortedPieces, \* FFD: runOptimization's area-sorted copy of pieces
    pieceIdx,     \* number of pieces the placement loop has processed
    sheets,       \* FFD / hybrid: the sheets opened so far
    beam,         \* beam search: the current beam
    depth,        \* beam search: the loop counter
    population,   \* genetic search: the individuals
    newPopulation,\* genetic search: evolvePopulation's next generation
    heap,         \* genetic search: the PlacedPiece objects, by reference
    generation,   \* genetic search: the loop counter
    preIn,        \* preprocessor: the caller's piece list
    preOut,       \* preprocessor: the array returned by the last operation
    preArg,       \* preprocessor: the array passed to the last operation
    preOp,        \* preprocessor: the last operation applied
    calls,        \* concurrent calls: the state of each call in flight
    manager,      \* concurrent calls: AlgorithmManager.instance
    kernelArgs,   \* geometry kernel: the arguments of a splitSpace call
    kernelRet,    \* geometry kernel: what the call returned
    searchSheets, \* local search: state.sheets of the OptimizationState
    searchLoop,   \* local search: panel, loop variables and position
    crossArgs,    \* crossover: the arguments of a crossover call
    crossRet      \* crossover: what the call returned

vars == <<request, preferred, pc, algorithm, fallbackLeft, firstError,
          attempted, ret, outcome, pieces, sortedPieces, pieceIdx, sheets,
          beam, depth,
          population, newPopulation, heap, generation, preIn, preOut, preArg,
          preOp, calls, manager, kernelArgs, kernelRet, searchSheets,
          searchLoop, crossArgs, crossRet>>

managerVars == <<request, preferred, pc, algorithm, fallbackLeft, firstError,
                 attempted, ret, outcome>>
strategyVars == <<pieces, sortedPieces, pieceIdx, sheets, beam, depth>>
geneticVars == <<population, newPopulation, heap, generation>>
preVars == <<preIn, preOut, preArg, preOp>>
concVars == <<calls, manager>>
kernelVars == <<kernelArgs, kernelRet>>
searchVars == <<searchSheets, searchLoop>>
crossVars == <<crossArgs, crossRet>>

-----------------------------------------------------------------------------
(* Bounds of the model. *)

\* Largest number of pieces in the list handed to the preprocessor.
PreMaxPieces == 2

\* priority is optional: Undef stands for a missing priority.
Undef == -1

PieceIds == <<"p1", "p2", "p3", "p4">>

\* An OptimizationPiece (label and mustFollowGrain, which no strategy reads
\* for placement, are left out).
Piece(id, w, h, q, rot, prio) ==
    [id |-> id, width |-> w, height |-> h, quantity |-> q,
     canRotate |-> rot, priority |-> prio]

Range(s) == {s[i] : i \in 1..Len(s)}

RECURSIVE SumSeq(_)
SumSeq(s) == IF s = <<>> THEN 0 ELSE Head(s) + SumSeq(Tail(s))

Area(r) == r.width * r.height

-----------------------------------------------------------------------------
(* Piece preprocessor: lib/utils. *)

RECURSIVE Copies(_, _)
\* the inner loop of expandPieces: for (i = 0; i < piece.quantity; i++)
Copies(piece, n) ==
    IF n <= 0 THEN <<>>
    ELSE <<[piece EXCEPT !.quantity = 1]>> \o Copies(piece, n - 1)

RECURSIVE expandPieces_keepQuantity(_)
expandPieces_keepQuantity(ps) ==
    IF ps = <<>> THEN <<>>
    ELSE [i \in 1..Head(ps).quantity |-> Head(ps)]
         \o expandPieces_keepQuantity(Tail(ps))

RECURSIVE expandPieces(_)
expandPieces(ps) ==
    IF ps = <<>> THEN <<>>
    ELSE Copies(Head(ps), Head(ps).quantity) \o expandPieces(Tail(ps))

\* (p.priority || 0)
Prio(p) == IF p.priority = Undef THEN 0 ELSE p.priority

\* The comparator of sortPiecesByPriority, as written: the secondary key
\* multiplies a.width by b.height.
comparePriority(a, b) ==
    IF Prio(b) # Prio(a)
    THEN Prio(b) - Prio(a)
    ELSE (b.width * b.height) - (a.width * b.height)

RECURSIVE InsertByPriority(_, _)
\* Array.prototype.sort is stable: x, which came later in the input, goes
\* behind every element the comparator does not put after it.
InsertByPriority(x, s) ==
    IF s = <<>> THEN <<x>>
    ELSE IF comparePriority(Head(s), x) <= 0
         THEN <<Head(s)>> \o InsertByPriority(x, Tail(s))
         ELSE <<x>> \o s

RECURSIVE SortByPriorityFrom(_, _)
SortByPriorityFrom(done, rest) ==
    IF rest = <<>> THEN done
    ELSE SortByPriorityFrom(InsertByPriority(Head(rest), done), Tail(rest))

\* pieces.sort(comparator): sorts the array in place and returns it.
sortPiecesByPriority(ps) == SortByPriorityFrom(<<>>, ps)

-----------------------------------------------------------------------------
(* The preprocessor run on its own: expandPieces, then                     *)
(* sortPiecesByPriority on the expanded array (as every execute does),     *)
(* then sortPiecesByPriority once more on the sorted array.                *)

PrePriorities == {Undef, 0, 1}
PreWidths == 1..2
PreHeights == 1..3
PreQuantities == 1..2

\* width, height, quantity and priority of one piece
PreChoices == PreWidths \X PreHeights \X PreQuantities \X PrePriorities

\* The piece list with the i-th of PieceIds as the i-th identifier.
PrePieceList(f) ==
    [i \in 1..Len(f) |-> Piece(PieceIds[i], f[i][1], f[i][2], f[i][3], FALSE, f[i][4])]

IdleManager ==
    /\ request = [pieces |-> <<>>, panels |-> <<>>, settings |-> [kerf |-> 0]]
    /\ preferred = ""
    /\ pc = "idle"
    /\ algorithm = "undefined"
    /\ fallbackLeft = <<>>
    /\ firstError = "none"
    /\ attempted = <<>>
    /\ ret = [kind |-> "none"]
    /\ outcome = [kind |-> "none"]

IdleStrategy ==
    /\ pieces = <<>>
    /\ sortedPieces = <<>>
    /\ pieceIdx = 0
    /\ sheets = <<>>
    /\ beam = <<>>
    /\ depth = 0

IdleGenetic ==
    /\ population = <<>>
    /\ newPopulation = <<>>
    /\ heap = <<>>
    /\ generation = 0

IdlePre ==
    /\ preIn = <<>>
    /\ preOut = <<>>
    /\ preArg = <<>>
    /\ preOp = "idle"

\* No call in flight, AlgorithmManager.instance not yet assigned.
IdleConc ==
    /\ calls = <<>>
    /\ manager = [instance |-> FALSE, algorithms |-> <<>>,
                  algorithmPriority |-> <<>>]

\* No splitSpace call under observation.
IdleKernel ==
    /\ kernelArgs = <<>>
    /\ kernelRet = [returned |-> FALSE, spaces |-> <<>>]

\* No localSearchImprovement call under observation.
IdleSearch ==
    /\ searchSheets = <<>>
    /\ searchLoop = [pc |-> "idle"]

\* No crossover call under observation.
IdleCross ==
    /\ crossArgs = <<>>
    /\ crossRet = [returned |-> FALSE]

InitPre ==
    /\ IdleManager /\ IdleStrategy /\ IdleGenetic /\ IdleConc /\ IdleKernel
    /\ IdleSearch /\ IdleCross
    /\ \E n \in 0..PreMaxPieces : \E f \in [1..n -> PreChoices] :
          preIn = PrePieceList(f)
    /\ preOut = <<>>
    /\ preArg = <<>>
    /\ preOp = "init"

\* const expandedPieces = expandPieces(pieces): a fresh array; the caller's
\* array and its pieces are only read.
PreExpand ==
    /\ preOp = "init"
    /\ preArg' = preIn
    /\ preOut' = expandPieces(preIn)
    /\ preOp' = "expanded"
    /\ UNCHANGED <<preIn, managerVars, strategyVars, geneticVars, concVars, kernelVars,
                   searchVars, crossVars>>

\* const sortedPieces = sortPiecesByPriority(expandedPieces)
PreSort ==
    /\ preOp = "expanded"
    /\ preArg' = preOut
    /\ preOut' = sortPiecesByPriority(preOut)
    /\ preOp' = "sorted"
    /\ UNCHANGED <<preIn, managerVars, strategyVars, geneticVars, concVars, kernelVars,
                   searchVars, crossVars>>

\* sortPiecesByPriority applied to its own result
PreResort ==
    /\ preOp = "sorted"
    /\ preArg' = preOut
    /\ preOut' = sortPiecesByPriority(preOut)
    /\ preOp' = "resorted"
    /\ UNCHANGED <<preIn, managerVars, strategyVars, geneticVars, concVars, kernelVars,
                   searchVars, crossVars>>

NextPre == PreExpand \/ PreSort \/ PreResort

SpecPre == InitPre /\ [][NextPre]_vars

-----------------------------------------------------------------------------
(* The names of the four strategies. *)

BEAM == "beam_search_guillotine"
HYBRID == "hybrid_constructive_local_search"
FFD == "first_fit_decreasing"
GENETIC == "advanced_genetic_algorithm"

-----------------------------------------------------------------------------
(* Geometry kernel: lib/utils. *)

Rect(x, y, w, h) == [x |-> x, y |-> y, width |-> w, height |-> h]

\* findBestFit returns null when nothing fits: a rectangle no piece has.
Null == [x |-> 0, y |-> 0, width |-> 0, height |-> 0]

\* "placed" is still false after a loop over the sheets: no sheet sequence.
NotPlaced == <<>>

rectanglesOverlap(rect1, rect2) ==
    ~(\/ rect1.x + rect1.width <= rect2.x
      \/ rect2.x + rect2.width <= rect1.x
      \/ rect1.y + rect1.height <= rect2.y
      \/ rect2.y + rect2.height <= rect1.y)

\* SplitOne as the comment above splitSpace describes it ("one to the right
\* and one above the placed piece"): two strips only.
SplitOne_twoStrips(space, usedSpace) ==
    IF /\ usedSpace.x < space.x + space.width
       /\ usedSpace.x + usedSpace.width > space.x
       /\ usedSpace.y < space.y + space.height
       /\ usedSpace.y + usedSpace.height > space.y
    THEN (IF usedSpace.y + usedSpace.height < space.y + space.height
          THEN <<Rect(space.x, usedSpace.y + usedSpace.height, space.width,
                      space.y + space.height - (usedSpace.y + usedSpace.height))>>
          ELSE <<>>)
         \o
         (IF usedSpace.x + usedSpace.width < space.x + space.width
          THEN <<Rect(usedSpace.x + usedSpace.width, space.y,
                      space.x + space.width - (usedSpace.x + usedSpace.width),
                      space.height)>>
          ELSE <<>>)
    ELSE <<space>>

\* The body of splitSpace's loop for one free rectangle: the strips above,
\* below, left and right of usedSpace when it overlaps, else the rectangle.
SplitOne(space, usedSpace) ==
    IF /\ usedSpace.x < space.x + space.width
       /\ usedSpace.x + usedSpace.width > space.x
       /\ usedSpace.y < space.y + space.height
       /\ usedSpace.y + usedSpace.height > space.y
    THEN (IF usedSpace.y > space.y
          THEN <<Rect(space.x, space.y, space.width, usedSpace.y - space.y)>>
          ELSE <<>>)
         \o
         (IF usedSpace.y + usedSpace.height < space.y + space.height
          THEN <<Rect(space.x, usedSpace.y + usedSpace.height, space.width,
                      space.y + space.height - (usedSpace.y + usedSpace.height))>>
          ELSE <<>>)
         \o
         (IF usedSpace.x > space.x
          THEN <<Rect(space.x, space.y, usedSpace.x - space.x, space.height)>>
          ELSE <<>>)
         \o
         (IF usedSpace.x + usedSpace.width < space.x + space.width
          THEN <<Rect(usedSpace.x + usedSpace.width, space.y,
                      space.x + space.width - (usedSpace.x + usedSpace.width),
                      space.height)>>
          ELSE <<>>)
    ELSE <<space>>

RECURSIVE SplitEach(_, _)
SplitEach(availableSpaces, usedSpace) ==
    IF availableSpaces = <<>> THEN <<>>
    ELSE SplitOne(Head(availableSpaces), usedSpace)
         \o SplitEach(Tail(availableSpaces), usedSpace)

\* splitSpace of lib/utils; the piece's width and height are accepted and
\* not read.
splitSpace(availableSpaces, usedSpace, pieceWidth, pieceHeight, kerf) ==
    SelectSeq(SplitEach(availableSpaces, usedSpace),
              LAMBDA space : space.width > kerf /\ space.height > kerf)

RECURSIVE Flatten(_)
\* Array.prototype.flatMap over a sequence of sequences
Flatten(ss) == IF ss = <<>> THEN <<>> ELSE Head(ss) \o Flatten(Tail(ss))

\* A PlacedPiece.  sheetNumber counts from 0 as in the code.
Placed(id, x, y, w, h, rotated, sheetNumber) ==
    [id |-> id, x |-> x, y |-> y, width |-> w, height |-> h,
     rotated |-> rotated, sheetNumber |-> sheetNumber]

UsedArea(placedPieces) ==
    SumSeq([i \in 1..Len(placedPieces) |-> placedPieces[i].width * placedPieces[i].height])

\* pieces.filter(piece => !allPlacedPieces.some(placed => placed.id === piece.id))
UnusedById(ps, allPlacedPieces) ==
    SelectSeq(ps, LAMBDA piece :
                    ~(\E k \in 1..Len(allPlacedPieces) : allPlacedPieces[k].id = piece.id))

\* An AlgorithmResult without cuts and executionTime, which no claim reads.
Result(name, placedPieces, unusedPieces, efficiency, totalArea, usedArea, wastedArea, sheetCount) ==
    [kind |-> "result", algorithm |-> name, placedPieces |-> placedPieces,
     unusedPieces |-> unusedPieces, efficiency |-> efficiency,
     totalArea |-> totalArea, usedArea |-> usedArea,
     wastedArea |-> wastedArea, sheetCount |-> sheetCount]

\* throw new Error(message)
Raise(message) == [kind |-> "error", message |-> message]

Sheet(placedPieces, availableSpace) ==
    [placedPieces |-> placedPieces, availableSpace |-> availableSpace]

EmptySheet(panel) == Sheet(<<>>, <<Rect(0, 0, panel.width, panel.height)>>)

-----------------------------------------------------------------------------
(* First-Fit-Decreasing: lib/algorithms/first-fit-decreasing.ts. *)

RECURSIVE InsertByArea(_, _)
\* the comparator (b.width * b.height) - (a.width * a.height), stable
InsertByArea(x, s) ==
    IF s = <<>> THEN <<x>>
    ELSE IF (x.width * x.height) - (Head(s).width * Head(s).height) <= 0
         THEN <<Head(s)>> \o InsertByArea(x, Tail(s))
         ELSE <<x>> \o s

RECURSIVE SortByAreaFrom(_, _)
SortByAreaFrom(done, rest) ==
    IF rest = <<>> THEN done
    ELSE SortByAreaFrom(InsertByArea(Head(rest), done), Tail(rest))

\* [...pieces].sort((a, b) => (b.width * b.height) - (a.width * a.height))
FfdSortByArea(ps) == SortByAreaFrom(<<>>, ps)

RECURSIVE FfdBestFitFrom(_, _, _, _, _)
\* findBestFit's loop: bestFit and bestWaste so far (Infinity is -1 here, a
\* waste being never negative)
FfdBestFitFrom(piece, spaces, rotated, bestFit, bestWaste) ==
    IF spaces = <<>> THEN bestFit
    ELSE LET space == Head(spaces)
             w == IF rotated THEN piece.height ELSE piece.width
             h == IF rotated THEN piece.width ELSE piece.height
             fits == w <= space.width /\ h <= space.height
             waste == (space.width - w) * (space.height - h)
         IN  IF fits /\ (bestWaste = -1 \/ waste < bestWaste)
             THEN FfdBestFitFrom(piece, Tail(spaces), rotated,
                                 Rect(space.x, space.y, w, h), waste)
             ELSE FfdBestFitFrom(piece, Tail(spaces), rotated, bestFit, bestWaste)

\* findBestFit with < for <= in the test of fit: a piece as wide or as high
\* as the free rectangle is refused (the first free rectangle that admits
\* the piece otherwise).
findBestFit_strict(piece, availableSpaces, rotated) ==
    LET w == IF rotated THEN piece.height ELSE piece.width
        h == IF rotated THEN piece.width ELSE piece.height
        admitting == SelectSeq(availableSpaces,
                               LAMBDA space : w < space.width /\ h < space.height)
    IN  IF admitting = <<>> THEN Null
        ELSE Rect(admitting[1].x, admitting[1].y, w, h)

findBestFit(piece, availableSpaces, rotated) ==
    FfdBestFitFrom(piece, availableSpaces, rotated, Null, -1)

\* The body of FirstFitDecreasingAlgorithm.splitSpace's loop: a free
\* rectangle that the piece overlaps on the x axis is cut into the strips
\* above and below it, one that it overlaps on the y axis only into the
\* strips left and right of it; kerf is not read.
FfdSplitOne(space, placedPiece) ==
    IF /\ placedPiece.x < space.x + space.width
       /\ placedPiece.x + placedPiece.width > space.x
    THEN (IF placedPiece.y > space.y
          THEN <<Rect(space.x, space.y, space.width, placedPiece.y - space.y)>>
          ELSE <<>>)
         \o
         (IF placedPiece.y + placedPiece.height < space.y + space.height
          THEN <<Rect(space.x, placedPiece.y + placedPiece.height, space.width,
                      space.y + space.height - (placedPiece.y + placedPiece.height))>>
          ELSE <<>>)
    ELSE IF /\ placedPiece.y < space.y + space.height
            /\ placedPiece.y + placedPiece.height > space.y
    THEN (IF placedPiece.x > space.x
          THEN <<Rect(space.x, space.y, placedPiece.x - space.x, space.height)>>
          ELSE <<>>)
         \o
         (IF placedPiece.x + placedPiece.width < space.x + space.width
          THEN <<Rect(placedPiece.x + placedPiece.width, space.y,
                      space.x + space.width - (placedPiece.x + placedPiece.width),
                      space.height)>>
          ELSE <<>>)
    ELSE <<space>>

RECURSIVE FfdSplitSpace(_, _, _, _, _)
FfdSplitSpace(availableSpaces, placedPiece, originalWidth, originalHeight, kerf) ==
    IF availableSpaces = <<>> THEN <<>>
    ELSE FfdSplitOne(Head(availableSpaces), placedPiece)
         \o FfdSplitSpace(Tail(availableSpaces), placedPiece,
                          originalWidth, originalHeight, kerf)

\* The sheet with the piece put at bestFit and its free space re-split.
FfdPlaceOn(sheet, piece, bestFit, rotated, sheetNumber, kerf) ==
    Sheet(Append(sheet.placedPieces,
                 Placed(piece.id, bestFit.x, bestFit.y, bestFit.width,
                        bestFit.height, rotated, sheetNumber)),
          IF rotated
          THEN FfdSplitSpace(sheet.availableSpace, bestFit, piece.height,
                             piece.width, kerf)
          ELSE FfdSplitSpace(sheet.availableSpace, bestFit, piece.width,
                             piece.height, kerf))

RECURSIVE FfdTrySheets(_, _, _, _)
\* the loop "for (let i = 0; i < sheets.length; i++)" from sheet i (counted
\* from 1 here) on: the sheets after the first placement found, or NotPlaced.
FfdTrySheets(sh, piece, i, kerf) ==
    IF i > Len(sh) THEN NotPlaced
    ELSE LET bestFit == findBestFit(piece, sh[i].availableSpace, FALSE)
             bestFitRotated == findBestFit(piece, sh[i].availableSpace, TRUE)
         IN  IF bestFit # Null
             THEN [sh EXCEPT ![i] = FfdPlaceOn(sh[i], piece, bestFit, FALSE, i - 1, kerf)]
             ELSE IF piece.canRotate /\ bestFitRotated # Null
             THEN [sh EXCEPT ![i] = FfdPlaceOn(sh[i], piece, bestFitRotated,
                                               TRUE, i - 1, kerf)]
             ELSE FfdTrySheets(sh, piece, i + 1, kerf)

\* "If piece couldn't be placed, create new sheet": the sheet is kept only
\* if the piece fits it unrotated.
FfdNewSheet(sh, piece, panel, kerf) ==
    LET newSheet == EmptySheet(panel)
        bestFit == findBestFit(piece, newSheet.availableSpace, FALSE)
    IN  IF bestFit # Null
        THEN Append(sh, FfdPlaceOn(newSheet, piece, bestFit, FALSE, Len(sh), kerf))
        ELSE sh

\* One iteration of "for (const piece of sortedPieces)".
FfdPlacePiece(sh, piece, panel, kerf) ==
    LET onOpen == FfdTrySheets(sh, piece, 1, kerf)
    IN  IF onOpen # NotPlaced THEN onOpen ELSE FfdNewSheet(sh, piece, panel, kerf)

\* The end of runOptimization: the result built from the sheets.  ps is the
\* list runOptimization was called with.
FfdResult(sh, ps, panel) ==
    LET allPlacedPieces == Flatten([i \in 1..Len(sh) |-> sh[i].placedPieces])
        totalArea == panel.width * panel.height * Len(sh)
        usedArea == UsedArea(allPlacedPieces)
    IN  Result(FFD, allPlacedPieces,
               UnusedById(ps, allPlacedPieces),
               [num |-> usedArea, den |-> totalArea],
               totalArea, usedArea, totalArea - usedArea, Len(sh))

RECURSIVE FfdPlaceAll(_, _, _, _)
FfdPlaceAll(sh, ps, panel, kerf) ==
    IF ps = <<>> THEN sh
    ELSE FfdPlaceAll(FfdPlacePiece(sh, Head(ps), panel, kerf), Tail(ps), panel, kerf)

\* FirstFitDecreasingAlgorithm.execute as a function of its arguments.
FfdExecute(ps, panels, settings) ==
    IF Len(panels) = 0 THEN Raise("No panels provided")
    ELSE LET sorted == sortPiecesByPriority(expandPieces(ps))
         IN  FfdResult(FfdPlaceAll(<<EmptySheet(panels[1])>>, FfdSortByArea(sorted),
                                   panels[1], settings.kerf),
                       sorted, panels[1])

-----------------------------------------------------------------------------
(* Beam-Search-Guillotine: lib/algorithms/beam-search-guillotine.ts. *)

beamWidth == 10

BeamNode(placedPieces, availableSpaces, ps, score) ==
    [placedPieces |-> placedPieces, availableSpaces |-> availableSpaces,
     pieces |-> ps, score |-> score]

\* canPlacePiece, the same in the beam search and in the hybrid search
canPlacePiece(piece, space, rotated) ==
    LET pieceWidth == IF rotated THEN piece.height ELSE piece.width
        pieceHeight == IF rotated THEN piece.width ELSE piece.height
    IN  pieceWidth <= space.width /\ pieceHeight <= space.height

\* placePiece, the same in the beam search and in the hybrid search
placePiece(piece, space, rotated, sheetNumber) ==
    Placed(piece.id, space.x, space.y,
           IF rotated THEN piece.height ELSE piece.width,
           IF rotated THEN piece.width ELSE piece.height,
           rotated, sheetNumber)

\* BeamSearchGuillotineAlgorithm.splitSpace: the same text as lib/utils'
\* splitSpace.
BeamSplitSpace(availableSpaces, usedSpace, pieceWidth, pieceHeight, kerf) ==
    SelectSeq(SplitEach(availableSpaces, usedSpace),
              LAMBDA space : space.width > kerf /\ space.height > kerf)

\* The nodes pushed onto newBeam for one free rectangle of a node.  Every
\* node made from one parent holds the parent's one unplacedPieces array,
\* onto which the loop over the beam pushes node.pieces[0] once the free
\* rectangles are done: carried is that array as it is from then on.
BeamCandidates(node, space, carried, kerf) ==
    LET piece == Head(node.pieces)
    IN  (IF canPlacePiece(piece, space, FALSE)
         THEN LET placement == placePiece(piece, space, FALSE, 0)
              IN  <<BeamNode(Append(node.placedPieces, placement),
                             BeamSplitSpace(node.availableSpaces, space,
                                            piece.width, piece.height, kerf),
                             carried,
                             node.score + placement.width * placement.height)>>
         ELSE <<>>)
        \o
        (IF piece.canRotate /\ canPlacePiece(piece, space, TRUE)
         THEN LET placement == placePiece(piece, space, TRUE, 0)
              IN  <<BeamNode(Append(node.placedPieces, placement),
                             BeamSplitSpace(node.availableSpaces, space,
                                            piece.height, piece.width, kerf),
                             carried,
                             node.score + placement.width * placement.height)>>
         ELSE <<>>)

\* One iteration of "for (const node of beam)".
BeamExpandNode(node, kerf) ==
    IF node.pieces = <<>> THEN <<>>
    ELSE LET carried == Append(Tail(node.pieces), Head(node.pieces))
         IN  Flatten([k \in 1..Len(node.availableSpaces) |->
                        BeamCandidates(node, node.availableSpaces[k], carried, kerf)])

RECURSIVE InsertByScore(_, _)
\* the comparator b.score - a.score, stable
InsertByScore(x, s) ==
    IF s = <<>> THEN <<x>>
    ELSE IF x.score - Head(s).score <= 0
         THEN <<Head(s)>> \o InsertByScore(x, Tail(s))
         ELSE <<x>> \o s

RECURSIVE SortByScoreFrom(_, _)
SortByScoreFrom(done, rest) ==
    IF rest = <<>> THEN done
    ELSE SortByScoreFrom(InsertByScore(Head(rest), done), Tail(rest))

\* One iteration of the depth loop: newBeam sorted by score, cut to beamWidth.
BeamStep(bm, kerf) ==
    LET newBeam == Flatten([k \in 1..Len(bm) |-> BeamExpandNode(bm[k], kerf)])
        sorted == SortByScoreFrom(<<>>, newBeam)
    IN  SubSeq(sorted, 1, IF Len(sorted) < beamWidth THEN Len(sorted) ELSE beamWidth)

BeamInitial(ps, panel) ==
    <<BeamNode(<<>>, <<Rect(0, 0, panel.width, panel.height)>>, ps, 0)>>

\* The end of runOptimization: the result of the best node, or the error.
BeamResult(bm, panel) ==
    IF bm = <<>> THEN Raise("No valid solution found")
    ELSE LET bestNode == bm[1]
             totalArea == panel.width * panel.height
             usedArea == UsedArea(bestNode.placedPieces)
         IN  Result(BEAM, bestNode.placedPieces,
                    bestNode.pieces, [num |-> usedArea, den |-> totalArea],
                    totalArea, usedArea, totalArea - usedArea, 1)

RECURSIVE BeamRun(_, _, _, _)
\* for (let depth = 0; depth < maxDepth && beam.length > 0; depth++)
BeamRun(bm, d, maxDepth, kerf) ==
    IF d < maxDepth /\ Len(bm) > 0
    THEN BeamRun(BeamStep(bm, kerf), d + 1, maxDepth, kerf)
    ELSE bm

\* BeamSearchGuillotineAlgorithm.execute as a function of its arguments.
BeamExecute(ps, panels, settings) ==
    IF Len(panels) = 0 THEN Raise("No panels provided")
    ELSE LET sorted == sortPiecesByPriority(expandPieces(ps))
         IN  BeamResult(BeamRun(BeamInitial(sorted, panels[1]), 0, Len(sorted),
                                settings.kerf),
                        panels[1])

-----------------------------------------------------------------------------
(* Hybrid-Constructive-Local-Search: unnamed/part_001.  currentSheet is    *)
(* set to 0 and never assigned again.                                      *)

currentSheet == 0

\* HybridPlaceOn with the rectangle that the piece covers handed to
\* splitSpace as the used space.
HybridPlaceOn_usedByPiece(sheet, piece, rotated, sheetNumber) ==
    LET placement == placePiece(piece, sheet.availableSpace[1], rotated, sheetNumber)
    IN  Sheet(Append(sheet.placedPieces, placement),
              splitSpace(sheet.availableSpace,
                         Rect(placement.x, placement.y, placement.width,
                              placement.height),
                         placement.width, placement.height, 0))

\* The sheet with the piece put at the corner of its first free rectangle
\* and that rectangle handed to splitSpace as the used space, kerf 0.
HybridPlaceOn(sheet, piece, rotated, sheetNumber) ==
    Sheet(Append(sheet.placedPieces,
                 placePiece(piece, sheet.availableSpace[1], rotated, sheetNumber)),
          IF rotated
          THEN splitSpace(sheet.availableSpace, sheet.availableSpace[1],
                          piece.height, piece.width, 0)
          ELSE splitSpace(sheet.availableSpace, sheet.availableSpace[1],
                          piece.width, piece.height, 0))

RECURSIVE HybridTrySheets(_, _, _)
\* "Try to place on existing sheets", from sheet i (counted from 1) on: the
\* sheets after the first placement found, or NotPlaced.
HybridTrySheets(sh, piece, i) ==
    IF i > Len(sh) THEN NotPlaced
    ELSE IF Len(sh[i].availableSpace) = 0 THEN HybridTrySheets(sh, piece, i + 1)
    ELSE IF canPlacePiece(piece, sh[i].availableSpace[1], FALSE)
         THEN [sh EXCEPT ![i] = HybridPlaceOn(sh[i], piece, FALSE, i - 1)]
    ELSE IF piece.canRotate /\ canPlacePiece(piece, sh[i].availableSpace[1], TRUE)
         THEN [sh EXCEPT ![i] = HybridPlaceOn(sh[i], piece, TRUE, i - 1)]
    ELSE HybridTrySheets(sh, piece, i + 1)

\* "Create new sheet if piece can't be placed"
HybridNewSheet(sh, piece, panel) ==
    LET newSheet == EmptySheet(panel)
    IN  IF canPlacePiece(piece, newSheet.availableSpace[1], FALSE)
        THEN Append(sh, HybridPlaceOn(newSheet, piece, FALSE, Len(sh)))
        ELSE sh

\* One iteration of constructivePlacement's loop over the pieces.
HybridPlacePiece(sh, piece, panel) ==
    LET cur == currentSheet + 1
    IN  IF currentSheet < Len(sh) /\ Len(sh[cur].availableSpace) = 0
        THEN sh     \* continue: the piece is skipped
        ELSE IF currentSheet < Len(sh)
                /\ canPlacePiece(piece, sh[cur].availableSpace[1], FALSE)
        THEN [sh EXCEPT ![cur] = HybridPlaceOn(sh[cur], piece, FALSE, currentSheet)]
        ELSE IF currentSheet < Len(sh) /\ piece.canRotate
                /\ canPlacePiece(piece, sh[cur].availableSpace[1], TRUE)
        THEN [sh EXCEPT ![cur] = HybridPlaceOn(sh[cur], piece, TRUE, currentSheet)]
        ELSE LET onOpen == HybridTrySheets(sh, piece, 1)
             IN  IF onOpen # NotPlaced THEN onOpen ELSE HybridNewSheet(sh, piece, panel)

RECURSIVE HybridPlaceAll(_, _, _)
\* constructivePlacement
HybridPlaceAll(sh, ps, panel) ==
    IF ps = <<>> THEN sh
    ELSE HybridPlaceAll(HybridPlacePiece(sh, Head(ps), panel), Tail(ps), panel)

\* calculateEfficiency(sheets, panel) as the pair usedArea, totalArea
HybridEfficiency(sh, panel) ==
    IF Len(sh) = 0 THEN [num |-> 0, den |-> 1]
    ELSE [num |-> SumSeq([i \in 1..Len(sh) |-> UsedArea(sh[i].placedPieces)]),
          den |-> panel.width * panel.height * Len(sh)]

\* a.num / a.den > b.num / b.den, the denominators being positive
FractionGreater(a, b) == a.num * b.den > b.num * a.den

\* The body of localSearchImprovement's innermost loop for sheets i < j and
\* pieces k of sheet i, l of sheet j (all counted from 1).  newPlacements
\* holds the sheets' own PlacedPiece objects, so the trial exchange writes
\* them: object k takes the position of object k + sheet1.placedPieces.length
\* of the concatenation, which then takes its own position back.  The
\* result is the sheets and whether the exchange counted as an improvement.
HybridTrySwap(sh, panel, i, j, k, l) ==
    LET n1 == Len(sh[i].placedPieces)
        both == sh[i].placedPieces \o sh[j].placedPieces
        currentEfficiency == HybridEfficiency(<<sh[i], sh[j]>>, panel)
        piece2Index == k + n1
        tried ==
            IF piece2Index <= Len(both)
            THEN [sh EXCEPT ![i].placedPieces[k].x = both[piece2Index].x,
                            ![i].placedPieces[k].y = both[piece2Index].y]
            ELSE sh
        newEfficiency == HybridEfficiency(<<tried[i], tried[j]>>, panel)
    IN  IF FractionGreater(newEfficiency, currentEfficiency)
        THEN [sheets |-> [tried EXCEPT ![i].placedPieces[k].x = tried[j].placedPieces[l].x,
                                       ![i].placedPieces[k].y = tried[j].placedPieces[l].y],
              improved |-> TRUE]
        ELSE [sheets |-> tried, improved |-> FALSE]

\* The index tuples of one pass, in the order of the four nested loops.
RECURSIVE HybridPairsFrom(_, _, _, _, _)
HybridPairsFrom(sh, i, j, k, l) ==
    IF i > Len(sh) THEN <<>>
    ELSE IF j > Len(sh) THEN HybridPairsFrom(sh, i + 1, i + 2, 1, 1)
    ELSE IF k > Len(sh[i].placedPieces) THEN HybridPairsFrom(sh, i, j + 1, 1, 1)
    ELSE IF l > Len(sh[j].placedPieces) THEN HybridPairsFrom(sh, i, j, k + 1, 1)
    ELSE <<<<i, j, k, l>>>> \o HybridPairsFrom(sh, i, j, k, l + 1)

RECURSIVE HybridPass(_, _, _, _)
HybridPass(sh, panel, todo, improved) ==
    IF todo = <<>> THEN [sheets |-> sh, improved |-> improved]
    ELSE LET t == Head(todo)
             r == HybridTrySwap(sh, panel, t[1], t[2], t[3], t[4])
         IN  HybridPass(r.sheets, panel, Tail(todo), improved \/ r.improved)

maxIterations == 100

RECURSIVE HybridLocalSearchFrom(_, _, _)
\* while (improved && iterations < maxIterations)
HybridLocalSearchFrom(sh, panel, iterations) ==
    IF iterations >= maxIterations THEN sh
    ELSE LET r == HybridPass(sh, panel, HybridPairsFrom(sh, 1, 2, 1, 1), FALSE)
         IN  IF r.improved
             THEN HybridLocalSearchFrom(r.sheets, panel, iterations + 1)
             ELSE r.sheets

localSearchImprovement(sh, panel) == HybridLocalSearchFrom(sh, panel, 0)

RECURSIVE HybridPassesFrom(_, _, _)
\* The value of iterations when localSearchImprovement's while loop is left:
\* the number of passes made.
HybridPassesFrom(sh, panel, iterations) ==
    IF iterations >= maxIterations THEN iterations
    ELSE LET r == HybridPass(sh, panel, HybridPairsFrom(sh, 1, 2, 1, 1), FALSE)
         IN  IF r.improved
             THEN HybridPassesFrom(r.sheets, panel, iterations + 1)
             ELSE iterations + 1

\* The end of runOptimization: the result built from the sheets.  ps is the
\* request's piece list: execute does not expand it.
HybridResult(sh, ps, panel) ==
    LET allPlacedPieces == Flatten([i \in 1..Len(sh) |-> sh[i].placedPieces])
        totalArea == panel.width * panel.height * Len(sh)
        usedArea == UsedArea(allPlacedPieces)
    IN  Result(HYBRID, allPlacedPieces,
               UnusedById(ps, allPlacedPieces),
               [num |-> usedArea, den |-> totalArea],
               totalArea, usedArea, totalArea - usedArea, Len(sh))

\* HybridConstructiveLocalSearchAlgorithm.execute as a function of its
\* arguments.
HybridExecute(ps, panels, settings) ==
    IF Len(panels) = 0 THEN Raise("No panels provided")
    ELSE HybridResult(localSearchImprovement(
                          HybridPlaceAll(<<EmptySheet(panels[1])>>, ps, panels[1]),
                          panels[1]),
                      ps, panels[1])

-----------------------------------------------------------------------------
(* Genetic-Search: lib/algorithms/advanced-genetic-algorithm.ts.           *)
(*                                                                         *)
(* The PlacedPiece objects are made by createRandomPlacement and by        *)
(* nothing else; crossover copies references to them into the child's      *)
(* array and mutate writes the objects themselves.  heap is the sequence   *)
(* of these objects and a placements array is a sequence of indices into   *)
(* it.  Math.random() is a nondeterministic choice.                        *)

\* The model's population size; the code's populationSize is 50.
PopulationBound == 2
\* The model's number of generations; the code's generations is 100.
GenerationBound == 2

\* The offsets of the position mutation, (Math.random() - 0.5) * 10, that
\* the model draws from.
JitterOffsets == {-1, 1}

\* tryPlacePiece: the placements and the free rectangles after the call,
\* or the ones before it when the piece does not fit the rectangle.
tryPlacePiece(piece, space, rotated, kerf, placements, availableSpaces, spaceIndex) ==
    LET pieceHeight == IF rotated THEN piece.width ELSE piece.height
        pieceWidth == IF rotated THEN piece.height ELSE piece.width
    IN  IF pieceHeight <= space.height /\ pieceWidth <= space.width
        THEN [placed |-> TRUE,
              placements |->
                  Append(placements,
                         Placed(piece.id, space.x, space.y, pieceWidth,
                                pieceHeight, rotated, 0)),
              \* availableSpaces.splice(spaceIndex, 1, ...newSpaces), the
              \* index counted from 1 here
              availableSpaces |->
                  SubSeq(availableSpaces, 1, spaceIndex - 1)
                  \o splitSpace(<<space>>, space, pieceWidth, pieceHeight, kerf)
                  \o SubSeq(availableSpaces, spaceIndex + 1, Len(availableSpaces))]
        ELSE [placed |-> FALSE, placements |-> placements,
              availableSpaces |-> availableSpaces]

RECURSIVE GaTrySpaces(_, _, _, _, _, _, _)
\* createRandomPlacement's while loop for one piece from spaceIndex on, and
\* the new-sheet attempt after it.  rotate is the outcome of
\* Math.random() > 0.5 for this piece: no run of the loop draws it twice
\* for one piece, the list of free rectangles never holding more than one.
GaTrySpaces(piece, panel, kerf, placements, availableSpaces, spaceIndex, rotate) ==
    IF spaceIndex > Len(availableSpaces)
    THEN tryPlacePiece(piece, Rect(0, 0, panel.width, panel.height), FALSE, kerf,
                       placements, availableSpaces, Len(availableSpaces) + 1)
    ELSE LET r == tryPlacePiece(piece, availableSpaces[spaceIndex],
                                piece.canRotate /\ rotate, kerf, placements,
                                availableSpaces, spaceIndex)
         IN  IF r.placed THEN r
             ELSE GaTrySpaces(piece, panel, kerf, placements, availableSpaces,
                              spaceIndex + 1, rotate)

RECURSIVE GaPlaceFrom(_, _, _, _, _, _, _)
GaPlaceFrom(ps, k, panel, kerf, placements, availableSpaces, rotate) ==
    IF k > Len(ps) THEN placements
    ELSE LET r == GaTrySpaces(ps[k], panel, kerf, placements, availableSpaces,
                              1, rotate[k])
         IN  GaPlaceFrom(ps, k + 1, panel, kerf, r.placements,
                         r.availableSpaces, rotate)

\* createRandomPlacement: the PlacedPiece objects of one individual
createRandomPlacement(ps, panel, kerf, rotate) ==
    GaPlaceFrom(ps, 1, panel, kerf, <<>>,
                <<Rect(0, 0, panel.width, panel.height)>>, rotate)

GaUsedArea(placements, hp) ==
    SumSeq([i \in 1..Len(placements) |->
              hp[placements[i]].height * hp[placements[i]].width])

\* evaluateIndividual.  sheetCount is Math.ceil(usedArea / totalArea);
\* fitness, efficiency * 0.8 + (1 / sheetCount) * 0.2, is the fraction
\* (4 * usedArea * sheetCount + totalArea) / (5 * totalArea * sheetCount).
evaluateIndividual(placements, hp, panel) ==
    IF Len(placements) = 0
    THEN [placements |-> <<>>, fitness |-> [num |-> 0, den |-> 1],
          sheetCount |-> 0, efficiency |-> [num |-> 0, den |-> 1]]
    ELSE LET totalArea == panel.height * panel.width
             usedArea == GaUsedArea(placements, hp)
             sheetCount == (usedArea + totalArea - 1) \div totalArea
         IN  [placements |-> placements,
              fitness |-> [num |-> 4 * usedArea * sheetCount + totalArea,
                           den |-> 5 * totalArea * sheetCount],
              sheetCount |-> sheetCount,
              efficiency |-> [num |-> usedArea, den |-> totalArea]]

RECURSIVE InsertByFitness(_, _)
\* the comparator b.fitness - a.fitness, stable
InsertByFitness(x, s) ==
    IF s = <<>> THEN <<x>>
    ELSE IF ~FractionGreater(x.fitness, Head(s).fitness)
         THEN <<Head(s)>> \o InsertByFitness(x, Tail(s))
         ELSE <<x>> \o s

RECURSIVE SortByFitnessFrom(_, _)
SortByFitnessFrom(done, rest) ==
    IF rest = <<>> THEN done
    ELSE SortByFitnessFrom(InsertByFitness(Head(rest), done), Tail(rest))

\* population.forEach(individual => individual.fitness = ...) and
\* population.sort((a, b) => b.fitness - a.fitness)
GaEvaluateAndSort(pop, hp, panel) ==
    SortByFitnessFrom(<<>>,
        [i \in 1..Len(pop) |->
            [pop[i] EXCEPT !.fitness =
                evaluateIndividual(pop[i].placements, hp, panel).fitness]])

\* bestIndividual.efficiency > 0.95
Converged(individual) == 100 * individual.efficiency.num > 95 * individual.efficiency.den

RECURSIVE GaBestFrom(_, _, _)
\* population.reduce((best, current) => current.fitness > best.fitness ? current : best)
GaBestFrom(pop, k, best) ==
    IF k > Len(pop) THEN best
    ELSE GaBestFrom(pop, k + 1,
                    IF FractionGreater(pop[k].fitness, best.fitness) THEN pop[k]
                    ELSE best)

RECURSIVE removeDuplicatePlacements(_, _, _)
\* seen holds the keys `${id}-${x}-${y}-${rotated}` met so far
removeDuplicatePlacements(placements, hp, seen) ==
    IF placements = <<>> THEN <<>>
    ELSE LET piece == hp[Head(placements)]
             key == <<piece.id, piece.x, piece.y, piece.rotated>>
         IN  IF key \in seen
             THEN removeDuplicatePlacements(Tail(placements), hp, seen)
             ELSE <<Head(placements)>>
                  \o removeDuplicatePlacements(Tail(placements), hp, seen \cup {key})

piecesOverlap(piece1, piece2) ==
    ~(\/ piece1.x + piece1.width <= piece2.x
      \/ piece2.x + piece2.width <= piece1.x
      \/ piece1.y + piece1.height <= piece2.y
      \/ piece2.y + piece2.height <= piece1.y)

RECURSIVE GaValidateFrom(_, _, _, _)
\* validatePlacements' loop; the bounds test on the y axis adds the piece's
\* width and compares with the panel's width, as the code does.
GaValidateFrom(placements, hp, panel, validPlacements) ==
    IF placements = <<>> THEN validPlacements
    ELSE LET piece == hp[Head(placements)]
             outOfBounds == \/ piece.x < 0
                            \/ piece.y < 0
                            \/ piece.x + piece.width > panel.width
                            \/ piece.y + piece.width > panel.width
             hasOverlap == \E k \in 1..Len(validPlacements) :
                               piecesOverlap(piece, hp[validPlacements[k]])
         IN  GaValidateFrom(Tail(placements), hp, panel,
                            IF outOfBounds \/ hasOverlap THEN validPlacements
                            ELSE Append(validPlacements, Head(placements)))

validatePlacements(placements, hp, panel) ==
    GaValidateFrom(placements, hp, panel, <<>>)

\* crossover, crossoverPoint being Math.floor(Math.random() * length)
crossover(parent1, parent2, crossoverPoint, hp, panel) ==
    LET childPlacements ==
            SubSeq(parent1.placements, 1, crossoverPoint)
            \o SubSeq(parent2.placements, crossoverPoint + 1, Len(parent2.placements))
    IN  evaluateIndividual(
            validatePlacements(removeDuplicatePlacements(childPlacements, hp, {}),
                               hp, panel),
            hp, panel)

Max0(v) == IF v < 0 THEN 0 ELSE v

\* The swap mutation on the child's array: swap = <<i, j>>, or <<>> when
\* the mutation is not drawn.
GaSwap(placements, swap) ==
    IF swap = <<>> THEN placements
    ELSE [placements EXCEPT ![swap[1]] = placements[swap[2]],
                            ![swap[2]] = placements[swap[1]]]

\* The rotation and position mutations, which write the PlacedPiece
\* objects: flips is the set of objects whose rotation is flipped, jitter
\* maps the objects that are moved to their offsets <<dx, dy>>.
GaMutateHeap(hp, flips, jitter) ==
    [r \in 1..Len(hp) |->
        LET a == hp[r]
            b == IF r \in flips
                 THEN [a EXCEPT !.rotated = ~a.rotated, !.height = a.width,
                                !.width = a.height]
                 ELSE a
        IN  IF r \in DOMAIN jitter
            THEN [b EXCEPT !.x = Max0(b.x + jitter[r][1]),
                           !.y = Max0(b.y + jitter[r][2])]
            ELSE b]

\* The end of runOptimization: the result built from population[0].
GaResult(bestSolution, hp, panel) ==
    LET placedPieces == [i \in 1..Len(bestSolution.placements) |->
                            hp[bestSolution.placements[i]]]
        usedArea == GaUsedArea(bestSolution.placements, hp)
    IN  Result(GENETIC, placedPieces, <<>>, bestSolution.efficiency,
               panel.height * panel.width, usedArea,
               (panel.height * panel.width) - usedArea,
               bestSolution.sheetCount)

-----------------------------------------------------------------------------
(* The strategy manager: lib/algorithms/algorithm-manager.ts.  A call of   *)
(* executeWithFallback(request, preferredAlgorithm) runs from pc = "start" *)
(* to pc = "done" (a result is returned) or pc = "failed" (it raises).     *)
(* A preferredAlgorithm that was not passed is the empty string here: the  *)
(* code tests it with if (preferredAlgorithm).                             *)

\* registerDefaultAlgorithms: the keys of the algorithms map ...
Registered == {BEAM, HYBRID, FFD, GENETIC}

\* The priority order with first-fit before the hybrid search.
algorithmPriority_firstFitSecond == <<BEAM, FFD, HYBRID, GENETIC>>

\* ... and the priority order for fallback
algorithmPriority == <<BEAM, HYBRID, FFD, GENETIC>>

\* this.algorithms.get(name)
getAlgorithm(name) == IF name \in Registered THEN name ELSE "undefined"

getDefaultAlgorithm ==
    IF Len(algorithmPriority) = 0 THEN "undefined"
    ELSE getAlgorithm(algorithmPriority[1])

\* ResolveAlgorithm without the default for a name that is not registered.
ResolveAlgorithm_registeredOnly(preferredAlgorithm) ==
    IF preferredAlgorithm # "" THEN getAlgorithm(preferredAlgorithm)
    ELSE getDefaultAlgorithm

\* The capability fields of the four strategy classes.
supportsRotation(name) == name # FFD
supportsMultiSheet(name) == name \in Registered

\* The first lines of executeWithFallback: the strategy to execute first.
ResolveAlgorithm(preferredAlgorithm) ==
    LET named == IF preferredAlgorithm # "" THEN getAlgorithm(preferredAlgorithm)
                 ELSE "undefined"
    IN  IF named = "undefined" THEN getDefaultAlgorithm ELSE named

Panel == request.panels[1]
Kerf == request.settings.kerf

Resolve ==
    /\ pc = "start"
    /\ algorithm' = ResolveAlgorithm(preferred)
    /\ IF ResolveAlgorithm(preferred) = "undefined"
       THEN /\ outcome' = Raise("No algorithms available")
            /\ pc' = "failed"
       ELSE /\ outcome' = outcome
            /\ pc' = "execute"
    /\ UNCHANGED <<request, preferred, fallbackLeft, firstError, attempted, ret,
                   strategyVars, geneticVars, preVars, concVars, kernelVars,
                   searchVars, crossVars>>

\* FirstFitDecreasingAlgorithm.execute up to the first placement
FfdBegin ==
    /\ pc = "execute"
    /\ algorithm = FFD
    /\ attempted' = Append(attempted, FFD)
    /\ IF Len(request.panels) = 0
       THEN /\ ret' = Raise("No panels provided")
            /\ pc' = "returned"
            /\ UNCHANGED strategyVars
       ELSE /\ pieces' = sortPiecesByPriority(expandPieces(request.pieces))
            /\ sortedPieces' = FfdSortByArea(pieces')
            /\ sheets' = <<EmptySheet(Panel)>>
            /\ pieceIdx' = 0
            /\ pc' = "running"
            /\ UNCHANGED <<ret, beam, depth>>
    /\ UNCHANGED <<request, preferred, algorithm, fallbackLeft, firstError,
                   outcome, geneticVars, preVars, concVars, kernelVars,
                   searchVars, crossVars>>

\* one iteration of runOptimization's loop over sortedPieces
FfdPlace ==
    /\ pc = "running"
    /\ algorithm = FFD
    /\ pieceIdx < Len(sortedPieces)
    /\ sheets' = FfdPlacePiece(sheets, sortedPieces[pieceIdx + 1], Panel, Kerf)
    /\ pieceIdx' = pieceIdx + 1
    /\ UNCHANGED <<managerVars, pieces, sortedPieces, beam, depth, geneticVars,
                   preVars, concVars, kernelVars, searchVars, crossVars>>

FfdFinish ==
    /\ pc = "running"
    /\ algorithm = FFD
    /\ pieceIdx = Len(sortedPieces)
    /\ ret' = FfdResult(sheets, pieces, Panel)
    /\ pc' = "returned"
    /\ UNCHANGED <<request, preferred, algorithm, fallbackLeft, firstError,
                   attempted, outcome, strategyVars, geneticVars,
                   preVars, concVars, kernelVars,
                   searchVars, crossVars>>

\* BeamSearchGuillotineAlgorithm.execute up to the depth loop
BeamBegin ==
    /\ pc = "execute"
    /\ algorithm = BEAM
    /\ attempted' = Append(attempted, BEAM)
    /\ IF Len(request.panels) = 0
       THEN /\ ret' = Raise("No panels provided")
            /\ pc' = "returned"
            /\ UNCHANGED strategyVars
       ELSE /\ pieces' = sortPiecesByPriority(expandPieces(request.pieces))
            /\ beam' = BeamInitial(pieces', Panel)
            /\ depth' = 0
            /\ pc' = "running"
            /\ UNCHANGED <<ret, sortedPieces, pieceIdx, sheets>>
    /\ UNCHANGED <<request, preferred, algorithm, fallbackLeft, firstError,
                   outcome, geneticVars, preVars, concVars, kernelVars,
                   searchVars, crossVars>>

\* one iteration of the depth loop; maxDepth = pieces.length
BeamExpand ==
    /\ pc = "running"
    /\ algorithm = BEAM
    /\ depth < Len(pieces) /\ Len(beam) > 0
    /\ beam' = BeamStep(beam, Kerf)
    /\ depth' = depth + 1
    /\ UNCHANGED <<managerVars, pieces, sortedPieces, pieceIdx, sheets,
                   geneticVars, preVars, concVars, kernelVars,
                   searchVars, crossVars>>

BeamFinish ==
    /\ pc = "running"
    /\ algorithm = BEAM
    /\ ~(depth < Len(pieces) /\ Len(beam) > 0)
    /\ ret' = BeamResult(beam, Panel)
    /\ pc' = "returned"
    /\ UNCHANGED <<request, preferred, algorithm, fallbackLeft, firstError,
                   attempted, outcome, strategyVars, geneticVars,
                   preVars, concVars, kernelVars,
                   searchVars, crossVars>>

\* HybridConstructiveLocalSearchAlgorithm.execute up to constructivePlacement
HybridBegin ==
    /\ pc = "execute"
    /\ algorithm = HYBRID
    /\ attempted' = Append(attempted, HYBRID)
    /\ IF Len(request.panels) = 0
       THEN /\ ret' = Raise("No panels provided")
            /\ pc' = "returned"
            /\ UNCHANGED strategyVars
       ELSE /\ pieces' = request.pieces
            /\ sheets' = <<EmptySheet(Panel)>>
            /\ pieceIdx' = 0
            /\ pc' = "running"
            /\ UNCHANGED <<ret, sortedPieces, beam, depth>>
    /\ UNCHANGED <<request, preferred, algorithm, fallbackLeft, firstError,
                   outcome, geneticVars, preVars, concVars, kernelVars,
                   searchVars, crossVars>>

\* one iteration of constructivePlacement's loop over pieces
HybridPlace ==
    /\ pc = "running"
    /\ algorithm = HYBRID
    /\ pieceIdx < Len(pieces)
    /\ sheets' = HybridPlacePiece(sheets, pieces[pieceIdx + 1], Panel)
    /\ pieceIdx' = pieceIdx + 1
    /\ UNCHANGED <<managerVars, pieces, sortedPieces, beam, depth, geneticVars,
                   preVars, concVars, kernelVars, searchVars, crossVars>>

\* localSearchImprovement and the result
HybridFinish ==
    /\ pc = "running"
    /\ algorithm = HYBRID
    /\ pieceIdx = Len(pieces)
    /\ sheets' = localSearchImprovement(sheets, Panel)
    /\ ret' = HybridResult(localSearchImprovement(sheets, Panel), pieces, Panel)
    /\ pc' = "returned"
    /\ UNCHANGED <<request, preferred, algorithm, fallbackLeft, firstError,
                   attempted, outcome, pieces, sortedPieces, pieceIdx, beam,
                   depth, geneticVars, preVars, concVars, kernelVars,
                   searchVars, crossVars>>

\* AdvancedGeneticAlgorithm.execute on a request without panels:
\* runOptimization raises and execute wraps the message.
GeneticNoPanels ==
    /\ pc = "execute"
    /\ algorithm = GENETIC
    /\ Len(request.panels) = 0
    /\ attempted' = Append(attempted, GENETIC)
    /\ ret' = Raise("Advanced Genetic Algorithm failed: No panels provided for optimization")
    /\ pc' = "returned"
    /\ UNCHANGED <<request, preferred, algorithm, fallbackLeft, firstError,
                   outcome, strategyVars, geneticVars, preVars, concVars, kernelVars,
                   searchVars, crossVars>>

\* AdvancedGeneticAlgorithm.execute up to the evolution loop:
\* initializePopulation.  rotate[i][k] is the outcome of Math.random() > 0.5
\* for piece k of individual i.
GeneticBegin ==
    /\ pc = "execute"
    /\ algorithm = GENETIC
    /\ Len(request.panels) > 0
    /\ attempted' = Append(attempted, GENETIC)
    /\ pieces' = sortPiecesByPriority(expandPieces(request.pieces))
    /\ \E rotate \in [1..PopulationBound -> [1..Len(pieces') -> BOOLEAN]] :
          LET made == [i \in 1..PopulationBound |->
                          createRandomPlacement(pieces', Panel, Kerf, rotate[i])]
              before == [i \in 1..PopulationBound |->
                          SumSeq([j \in 1..(i - 1) |-> Len(made[j])])]
          IN  /\ heap' = Flatten(made)
              /\ population' =
                    [i \in 1..PopulationBound |->
                        evaluateIndividual(
                            [k \in 1..Len(made[i]) |-> before[i] + k],
                            Flatten(made), Panel)]
    /\ newPopulation' = <<>>
    /\ generation' = 0
    /\ pc' = "running"
    /\ UNCHANGED <<request, preferred, algorithm, fallbackLeft, firstError, ret,
                   outcome, sortedPieces, pieceIdx, sheets, beam, depth,
                   preVars, concVars, kernelVars,
                   searchVars, crossVars>>

\* The head of one iteration of the evolution loop: evaluate, sort, test
\* for convergence; on convergence the loop is left and the result built,
\* otherwise evolvePopulation starts with the elite.
GeneticEvaluate ==
    /\ pc = "running"
    /\ algorithm = GENETIC
    /\ generation < GenerationBound
    /\ LET sorted == GaEvaluateAndSort(population, heap, Panel)
       IN  /\ population' = sorted
           /\ IF Converged(sorted[1])
              THEN /\ ret' = GaResult(sorted[1], heap, Panel)
                   /\ pc' = "returned"
                   /\ newPopulation' = newPopulation
              ELSE /\ newPopulation' = <<GaBestFrom(sorted, 2, sorted[1])>>
                   /\ pc' = "evolving"
                   /\ ret' = ret
    /\ UNCHANGED <<request, preferred, algorithm, fallbackLeft, firstError,
                   attempted, outcome, strategyVars, heap, generation,
                   preVars, concVars, kernelVars,
                   searchVars, crossVars>>

\* One iteration of evolvePopulation's while loop: selectParent twice (a
\* tournament can be won by any individual), crossover, mutate.
GeneticChild ==
    /\ pc = "evolving"
    /\ Len(newPopulation) < Len(population)
    /\ \E p1 \in 1..Len(population), p2 \in 1..Len(population) :
       \E crossoverPoint \in 0..Max0(Len(population[p1].placements) - 1) :
          LET child == crossover(population[p1], population[p2], crossoverPoint,
                                 heap, Panel)
              n == Len(child.placements)
              refs == Range(child.placements)
          IN  \E swap \in {<<>>} \cup {<<i, j>> : i \in 1..n, j \in (1..n)} :
              \E flips \in SUBSET refs :
              \E moved \in SUBSET refs :
              \E jitter \in [moved -> JitterOffsets \X JitterOffsets] :
                 /\ swap # <<>> => swap[1] # swap[2]
                 /\ heap' = GaMutateHeap(heap, flips, jitter)
                 /\ newPopulation' =
                       Append(newPopulation,
                           LET placements == GaSwap(child.placements, swap)
                               newEvaluation ==
                                   evaluateIndividual(placements, heap', Panel)
                           IN  [placements |-> placements,
                                fitness |-> newEvaluation.fitness,
                                sheetCount |-> newEvaluation.sheetCount,
                                efficiency |-> newEvaluation.efficiency])
    /\ UNCHANGED <<managerVars, strategyVars, population, generation,
                   preVars, concVars, kernelVars,
                   searchVars, crossVars>>

\* GeneticAdvance with the loop counter left as it is.
GeneticAdvance_sameGeneration ==
    /\ pc = "evolving"
    /\ Len(newPopulation) = Len(population)
    /\ population' = newPopulation
    /\ newPopulation' = <<>>
    /\ generation' = generation
    /\ pc' = "running"
    /\ UNCHANGED <<request, preferred, algorithm, fallbackLeft, firstError,
                   attempted, ret, outcome, strategyVars, heap, preVars,
                   concVars, kernelVars, searchVars, crossVars>>

\* evolvePopulation returns; generation++
GeneticAdvance ==
    /\ pc = "evolving"
    /\ Len(newPopulation) = Len(population)
    /\ population' = newPopulation
    /\ newPopulation' = <<>>
    /\ generation' = generation + 1
    /\ pc' = "running"
    /\ UNCHANGED <<request, preferred, algorithm, fallbackLeft, firstError,
                   attempted, ret, outcome, strategyVars, heap,
                   preVars, concVars, kernelVars,
                   searchVars, crossVars>>

\* The loop ran all its generations: the result is built from population[0].
GeneticFinish ==
    /\ pc = "running"
    /\ algorithm = GENETIC
    /\ generation = GenerationBound
    /\ ret' = GaResult(population[1], heap, Panel)
    /\ pc' = "returned"
    /\ UNCHANGED <<request, preferred, algorithm, fallbackLeft, firstError,
                   attempted, outcome, strategyVars, geneticVars,
                   preVars, concVars, kernelVars,
                   searchVars, crossVars>>

\* return await algorithm.execute(...): the strategy returned a result
ReturnResult ==
    /\ pc = "returned"
    /\ ret.kind = "result"
    /\ outcome' = ret
    /\ pc' = "done"
    /\ UNCHANGED <<request, preferred, algorithm, fallbackLeft, firstError,
                   attempted, ret, strategyVars, geneticVars,
                   preVars, concVars, kernelVars,
                   searchVars, crossVars>>

\* catch (error): the first strategy raised; the fallback loop starts over
\* this.algorithmPriority.slice(1)
CatchFirst ==
    /\ pc = "returned"
    /\ ret.kind = "error"
    /\ firstError = "none"
    /\ firstError' = ret.message
    /\ fallbackLeft' = Tail(algorithmPriority)
    /\ pc' = "fallback"
    /\ UNCHANGED <<request, preferred, algorithm, attempted, ret, outcome,
                   strategyVars, geneticVars, preVars, concVars, kernelVars,
                   searchVars, crossVars>>

\* catch (fallbackError): warn and continue with the next name
CatchFallback ==
    /\ pc = "returned"
    /\ ret.kind = "error"
    /\ firstError # "none"
    /\ pc' = "fallback"
    /\ UNCHANGED <<request, preferred, algorithm, fallbackLeft, firstError,
                   attempted, ret, outcome, strategyVars, geneticVars,
                   preVars, concVars, kernelVars,
                   searchVars, crossVars>>

\* the next fallbackName of the loop
NextFallback ==
    /\ pc = "fallback"
    /\ fallbackLeft # <<>>
    /\ algorithm' = getAlgorithm(Head(fallbackLeft))
    /\ fallbackLeft' = Tail(fallbackLeft)
    /\ pc' = IF getAlgorithm(Head(fallbackLeft)) = "undefined" THEN "fallback"
             ELSE "execute"
    /\ UNCHANGED <<request, preferred, firstError, attempted, ret, outcome,
                   strategyVars, geneticVars, preVars, concVars, kernelVars,
                   searchVars, crossVars>>

\* throw new Error(`All algorithms failed. Last error: ${error.message}`),
\* error being the one caught from the first strategy
Exhausted ==
    /\ pc = "fallback"
    /\ fallbackLeft = <<>>
    /\ outcome' = [kind |-> "error", message |-> "All algorithms failed",
                   lastError |-> firstError]
    /\ pc' = "failed"
    /\ UNCHANGED <<request, preferred, algorithm, fallbackLeft, firstError,
                   attempted, ret, strategyVars, geneticVars,
                   preVars, concVars, kernelVars,
                   searchVars, crossVars>>

\* algorithm.execute(request.pieces, request.panels, request.settings) as a
\* function of the request.  The genetic search on a request with panels
\* returns a result that depends on its random draws; only its kind and
\* its name are given here.
ExecuteStrategy(name, req) ==
    CASE name = BEAM -> BeamExecute(req.pieces, req.panels, req.settings)
      [] name = HYBRID -> HybridExecute(req.pieces, req.panels, req.settings)
      [] name = FFD -> FfdExecute(req.pieces, req.panels, req.settings)
      [] name = GENETIC ->
            IF Len(req.panels) = 0
            THEN Raise("Advanced Genetic Algorithm failed: No panels provided for optimization")
            ELSE [kind |-> "result", algorithm |-> GENETIC]

RECURSIVE FallbackFrom(_, _, _)
\* the loop over this.algorithmPriority.slice(1) after the first strategy
\* raised error
FallbackFrom(names, req, error) ==
    IF names = <<>>
    THEN [kind |-> "error", message |-> "All algorithms failed",
          lastError |-> error]
    ELSE IF getAlgorithm(Head(names)) = "undefined"
         THEN FallbackFrom(Tail(names), req, error)
         ELSE LET r == ExecuteStrategy(Head(names), req)
              IN  IF r.kind = "result" THEN r
                  ELSE FallbackFrom(Tail(names), req, error)

\* executeWithFallback as a function of its arguments: what the call
\* returns or raises.
executeWithFallback(req, preferredAlgorithm) ==
    LET first == ResolveAlgorithm(preferredAlgorithm)
    IN  IF first = "undefined" THEN Raise("No algorithms available")
        ELSE LET r == ExecuteStrategy(first, req)
             IN  IF r.kind = "result" THEN r
                 ELSE FallbackFrom(Tail(algorithmPriority), req, r.message)

-----------------------------------------------------------------------------
(* The requests of the model and the specification of one call.            *)

\* Largest number of pieces of a request.
MaxPieces == 2

\* width, height of the pieces and of the panels
Shapes == {<<2, 2>>, <<1, 2>>, <<3, 1>>}
PanelSizes == {<<3, 2>>, <<2, 3>>}
Quantities == 1..2
Kerfs == {0, 1}

\* shape, quantity and canRotate of one piece
PieceChoices == Shapes \X Quantities \X BOOLEAN

\* The piece list with the i-th of PieceIds as the i-th identifier.
PieceList(f) ==
    [i \in 1..Len(f) |->
        Piece(PieceIds[i], f[i][1][1], f[i][1][2], f[i][2], f[i][3], Undef)]

Request(ps, panels, kerf) ==
    [pieces |-> ps, panels |-> panels, settings |-> [kerf |-> kerf]]

\* The scenarios of the specification's section 8, with their own numbers.
ScenarioA ==
    Request(<<Piece("p1", 100, 50, 1, FALSE, Undef)>>,
            <<[width |-> 500, height |-> 300]>>, 0)
ScenarioC ==
    Request(<<Piece("p1", 100, 100, 2, FALSE, Undef)>>,
            <<[width |-> 150, height |-> 100]>>, 0)

\* Three pieces that leave two open sheets with free strips of different
\* height: 2x2 and 1x3 open a sheet each, 1x1 fits the strip of both.
ScenarioTwoOpenSheets ==
    Request(<<Piece("p1", 2, 2, 1, FALSE, Undef), Piece("p2", 1, 3, 1, FALSE, Undef),
              Piece("p3", 1, 1, 1, FALSE, Undef)>>,
            <<[width |-> 2, height |-> 4]>>, 0)

\* The requests a call is made with: piece lists of up to MaxPieces pieces
\* on one panel, piece lists of up to one piece without a panel, and the
\* scenarios.
IsRequest(req) ==
    \/ \E n \in 0..MaxPieces : \E f \in [1..n -> PieceChoices] :
       \E pn \in PanelSizes, kerf \in Kerfs :
          req = Request(PieceList(f), <<[width |-> pn[1], height |-> pn[2]]>>, kerf)
    \/ \E n \in 0..1 : \E f \in [1..n -> PieceChoices] :
          req = Request(PieceList(f), <<>>, 0)
    \/ req \in {ScenarioA, ScenarioC, ScenarioTwoOpenSheets}

\* preferredAlgorithm: not passed, a registered name, or a name that is not
\* registered.  The genetic search as the preferred strategy runs under
\* SpecGenetic.
PreferredNames == {"", BEAM, HYBRID, FFD, "simulated_annealing"}

Init ==
    /\ IsRequest(request)
    /\ preferred \in PreferredNames
    /\ pc = "start"
    /\ algorithm = "undefined"
    /\ fallbackLeft = <<>>
    /\ firstError = "none"
    /\ attempted = <<>>
    /\ ret = [kind |-> "none"]
    /\ outcome = [kind |-> "none"]
    /\ IdleStrategy /\ IdleGenetic /\ IdlePre /\ IdleConc /\ IdleKernel
    /\ IdleSearch /\ IdleCross

Next ==
    \/ Resolve
    \/ FfdBegin \/ FfdPlace \/ FfdFinish
    \/ BeamBegin \/ BeamExpand \/ BeamFinish
    \/ HybridBegin \/ HybridPlace \/ HybridFinish
    \/ GeneticNoPanels
    \/ ReturnResult \/ CatchFirst \/ CatchFallback \/ NextFallback \/ Exhausted

Spec == Init /\ [][Next]_vars

-----------------------------------------------------------------------------
(* A call of executeWithFallback(request, "advanced_genetic_algorithm") on *)
(* a request with a panel.                                                 *)

IsGeneticRequest(req) ==
    \/ \E n \in 0..1 : \E f \in [1..n -> PieceChoices] : \E pn \in PanelSizes :
          req = Request(PieceList(f), <<[width |-> pn[1], height |-> pn[2]]>>, 0)
    \/ req \in { Request(<<Piece("p1", 2, 2, 2, FALSE, Undef),
                           Piece("p2", 3, 1, 1, FALSE, Undef)>>,
                         <<[width |-> 2, height |-> 3]>>, 0),
                 Request(<<Piece("p1", 1, 2, 1, TRUE, Undef),
                           Piece("p2", 1, 2, 1, FALSE, Undef)>>,
                         <<[width |-> 3, height |-> 2]>>, 0) }

InitGenetic ==
    /\ IsGeneticRequest(request)
    /\ preferred = GENETIC
    /\ pc = "start"
    /\ algorithm = "undefined"
    /\ fallbackLeft = <<>>
    /\ firstError = "none"
    /\ attempted = <<>>
    /\ ret = [kind |-> "none"]
    /\ outcome = [kind |-> "none"]
    /\ IdleStrategy /\ IdleGenetic /\ IdlePre /\ IdleConc /\ IdleKernel
    /\ IdleSearch /\ IdleCross

NextGenetic ==
    \/ Resolve
    \/ GeneticBegin \/ GeneticEvaluate \/ GeneticChild \/ GeneticAdvance
    \/ GeneticFinish
    \/ ReturnResult

SpecGenetic == InitGenetic /\ [][NextGenetic]_vars

-----------------------------------------------------------------------------
(* The calls of the two specifications above together: a call with any of *)
(* the four strategies executed first.                                     *)

InitAll == Init \/ InitGenetic

NextAll == Next \/ NextGenetic

SpecAll == InitAll /\ [][NextAll]_vars

-----------------------------------------------------------------------------
(* Two calls of executeWithFallback in flight on the one AlgorithmManager. *)
(* A strategy's execute has no await inside, so it runs to its end when it *)
(* is called; a call is suspended only at return await ...execute(...),    *)
(* and the steps of a call are the stretches of code between two awaits.   *)
(* manager is the singleton: its algorithms map (name to strategy          *)
(* instance) and its algorithmPriority array.                              *)

Calls == {"a", "b"}

\* The fields of a strategy instance.
StrategyInstance(name) ==
    [name |-> name, supportsRotation |-> supportsRotation(name),
     supportsMultiSheet |-> supportsMultiSheet(name)]

\* new AlgorithmManager(): the constructor's registerDefaultAlgorithms
registerDefaultAlgorithms ==
    [instance |-> TRUE,
     algorithms |-> [name \in Registered |-> StrategyInstance(name)],
     algorithmPriority |-> algorithmPriority]

\* AlgorithmManager.getInstance(): the singleton after the call
getInstance(m) == IF ~m.instance THEN registerDefaultAlgorithms ELSE m

\* m.algorithms.get(name)
algorithmsGet(m, name) ==
    IF name \in DOMAIN m.algorithms THEN name ELSE "undefined"

\* The first lines of executeWithFallback on the manager m.
ResolveOn(m, preferredAlgorithm) ==
    LET named == IF preferredAlgorithm # "" THEN algorithmsGet(m, preferredAlgorithm)
                 ELSE "undefined"
    IN  IF named # "undefined" THEN named
        ELSE IF Len(m.algorithmPriority) = 0 THEN "undefined"
        ELSE algorithmsGet(m, m.algorithmPriority[1])

\* prioritySlice with shift() in the place of slice(1): the manager's own
\* array loses its first name.
prioritySlice_shift(m) ==
    [fallback |-> IF Len(m.algorithmPriority) = 0 THEN <<>>
                  ELSE Tail(m.algorithmPriority),
     manager |-> [m EXCEPT !.algorithmPriority =
                     IF Len(@) = 0 THEN <<>> ELSE Tail(@)]]

\* this.algorithmPriority.slice(1): the names of the fallback loop, a new
\* array, and the manager after the call
prioritySlice(m) ==
    [fallback |-> IF Len(m.algorithmPriority) = 0 THEN <<>>
                  ELSE Tail(m.algorithmPriority),
     manager |-> m]

RECURSIVE SkipUnregistered(_, _)
\* the loop's if (fallbackAlgorithm): names without an instance are passed
SkipUnregistered(m, names) ==
    IF names = <<>> THEN <<>>
    ELSE IF algorithmsGet(m, Head(names)) = "undefined"
         THEN SkipUnregistered(m, Tail(names))
         ELSE names

\* The requests of the concurrent calls.
ConcRequests ==
    { Request(<<Piece("p1", 2, 2, 1, FALSE, Undef)>>,
              <<[width |-> 3, height |-> 2]>>, 0),
      Request(<<Piece("p1", 2, 2, 1, FALSE, Undef),
                Piece("p2", 1, 2, 1, TRUE, Undef)>>,
              <<[width |-> 3, height |-> 2]>>, 0),
      Request(<<Piece("p1", 1, 2, 2, FALSE, Undef)>>,
              <<[width |-> 2, height |-> 3]>>, 1),
      Request(<<Piece("p1", 3, 1, 1, FALSE, Undef)>>, <<>>, 0) }

ConcPreferred == {"", FFD, "simulated_annealing"}

NewCall(req, preferredAlgorithm) ==
    [request |-> req, preferred |-> preferredAlgorithm, pc |-> "start",
     fallbackLeft |-> <<>>, firstError |-> "none", attempted |-> <<>>,
     ret |-> [kind |-> "none"], outcome |-> [kind |-> "none"],
     overlapped |-> FALSE]

\* Some other call is suspended at an await.
OtherInFlight(c) == \E d \in Calls \ {c} : calls[d].pc = "awaiting"

InitConc ==
    /\ IdleManager /\ IdleStrategy /\ IdleGenetic /\ IdlePre /\ IdleKernel
    /\ IdleSearch /\ IdleCross
    /\ calls \in [Calls -> {NewCall(req, p) : req \in ConcRequests,
                                              p \in ConcPreferred}]
    /\ manager = [instance |-> FALSE, algorithms |-> <<>>,
                  algorithmPriority |-> <<>>]

\* getInstance() and executeWithFallback up to its first await: the first
\* strategy is chosen and executed.
ConcStart(c) ==
    /\ calls[c].pc = "start"
    /\ manager' = getInstance(manager)
    /\ LET first == ResolveOn(manager', calls[c].preferred)
       IN  calls' = [calls EXCEPT ![c] =
              IF first = "undefined"
              THEN [@ EXCEPT !.pc = "failed",
                             !.outcome = Raise("No algorithms available")]
              ELSE [@ EXCEPT !.pc = "awaiting",
                             !.attempted = <<first>>,
                             !.ret = ExecuteStrategy(first, calls[c].request),
                             !.overlapped = OtherInFlight(c)]]
    /\ UNCHANGED <<managerVars, strategyVars, geneticVars, preVars, kernelVars,
                   searchVars, crossVars>>

\* the awaited execute returned a result: executeWithFallback returns it
ConcReturn(c) ==
    /\ calls[c].pc = "awaiting"
    /\ calls[c].ret.kind = "result"
    /\ calls' = [calls EXCEPT ![c] =
                    [@ EXCEPT !.pc = "done", !.outcome = calls[c].ret,
                              !.overlapped = @ \/ OtherInFlight(c)]]
    /\ UNCHANGED <<manager, managerVars, strategyVars, geneticVars, preVars,
                   kernelVars, searchVars, crossVars>>

\* the awaited execute raised: the catch block (entered with the first
\* error) or the loop's continue, up to the next await or the final throw
ConcFallback(c) ==
    /\ calls[c].pc = "awaiting"
    /\ calls[c].ret.kind = "error"
    /\ LET entering == calls[c].firstError = "none"
           sliced == prioritySlice(manager)
           m == IF entering THEN sliced.manager ELSE manager
           error == IF entering THEN calls[c].ret.message
                    ELSE calls[c].firstError
           names == SkipUnregistered(m, IF entering THEN sliced.fallback
                                        ELSE calls[c].fallbackLeft)
       IN  /\ manager' = m
           /\ calls' = [calls EXCEPT ![c] =
                IF names = <<>>
                THEN [@ EXCEPT !.pc = "failed",
                               !.firstError = error,
                               !.fallbackLeft = <<>>,
                               !.outcome = [kind |-> "error",
                                            message |-> "All algorithms failed",
                                            lastError |-> error],
                               !.overlapped = @ \/ OtherInFlight(c)]
                ELSE [@ EXCEPT !.pc = "awaiting",
                               !.firstError = error,
                               !.fallbackLeft = Tail(names),
                               !.attempted = Append(@, Head(names)),
                               !.ret = ExecuteStrategy(Head(names),
                                                       calls[c].request),
                               !.overlapped = @ \/ OtherInFlight(c)]]
    /\ UNCHANGED <<managerVars, strategyVars, geneticVars, preVars, kernelVars,
                   searchVars, crossVars>>

NextConc ==
    \E c \in Calls : ConcStart(c) \/ ConcReturn(c) \/ ConcFallback(c)

SpecConc == InitConc /\ [][NextConc]_vars

-----------------------------------------------------------------------------
(* The geometry kernel's splitSpace on its own: a call with a list of free *)
(* rectangles, a used rectangle and a kerf.                                *)

\* Largest number of free rectangles passed to splitSpace.
KernelMaxSpaces == 2

\* The free rectangles and the used rectangles of the calls.
KernelSpaces ==
    {Rect(x, y, wh[1], wh[2]) :
        x \in 0..1, y \in 0..1, wh \in {<<3, 3>>, <<2, 2>>, <<1, 2>>, <<2, 1>>}}
KernelUsed ==
    {Rect(x, y, w, h) : x \in 0..2, y \in 0..2, w \in 1..2, h \in 1..2}
KernelKerfs == {0, 1}

InitKernel ==
    /\ IdleManager /\ IdleStrategy /\ IdleGenetic /\ IdlePre /\ IdleConc
    /\ IdleSearch /\ IdleCross
    /\ \E n \in 0..KernelMaxSpaces : \E f \in [1..n -> KernelSpaces] :
       \E used \in KernelUsed, kerf \in KernelKerfs :
          kernelArgs = [availableSpaces |-> f, usedSpace |-> used,
                        kerf |-> kerf]
    /\ kernelRet = [returned |-> FALSE, spaces |-> <<>>]

\* splitSpace(availableSpaces, usedSpace, _pieceWidth, _pieceHeight, kerf)
KernelSplit ==
    /\ ~kernelRet.returned
    /\ kernelRet' =
          [returned |-> TRUE,
           spaces |-> splitSpace(kernelArgs.availableSpaces,
                                 kernelArgs.usedSpace,
                                 kernelArgs.usedSpace.width,
                                 kernelArgs.usedSpace.height,
                                 kernelArgs.kerf)]
    /\ UNCHANGED <<kernelArgs, managerVars, strategyVars, geneticVars,
                   preVars, concVars, searchVars, crossVars>>

NextKernel == KernelSplit

SpecKernel == InitKernel /\ [][NextKernel]_vars

-----------------------------------------------------------------------------
(* localSearchImprovement(state, panel) of the hybrid search, called on an *)
(* OptimizationState of several sheets.  runOptimization calls it on the   *)
(* state that constructivePlacement leaves; here it is called on every     *)
(* state of two or three sheets that each hold one or two pieces laid out  *)
(* inside the panel without overlap.  A step is one run of the body of the *)
(* innermost loop, or the test of the while loop.                          *)

\* The panel of the calls and the shapes of the pieces on it.
SearchPanel == [width |-> 2, height |-> 2]
SearchShapes == {<<1, 1>>, <<1, 2>>}
SearchSheetCounts == {2, 3}
SearchPieceCounts == {1, 2}

\* The identifiers of the pieces: two for each sheet.
SearchIds == <<"a1", "a2", "b1", "b2", "c1", "c2">>

\* The rectangles a piece can lie on inside the panel.
SearchPositions ==
    {r \in {Rect(x, y, wh[1], wh[2]) : x \in 0..1, y \in 0..1, wh \in SearchShapes} :
        r.x + r.width <= SearchPanel.width /\ r.y + r.height <= SearchPanel.height}

\* The lists of rectangles of one sheet: pairwise without overlap.
SearchLayouts ==
    {f \in UNION {[1..n -> SearchPositions] : n \in SearchPieceCounts} :
        \A a, b \in 1..Len(f) : a < b => ~rectanglesOverlap(f[a], f[b])}

\* The sheets with the given layouts; the k-th piece of the i-th sheet has
\* an identifier of its own.
SearchState(layouts) ==
    [i \in 1..Len(layouts) |->
        Sheet([k \in 1..Len(layouts[i]) |->
                  Placed(SearchIds[2 * (i - 1) + k], layouts[i][k].x,
                         layouts[i][k].y, layouts[i][k].width,
                         layouts[i][k].height, FALSE, i - 1)],
              <<>>)]

\* let improved = true; let iterations = 0;
InitSearch ==
    /\ IdleManager /\ IdleStrategy /\ IdleGenetic /\ IdlePre /\ IdleConc
    /\ IdleKernel /\ IdleCross
    /\ \E n \in SearchSheetCounts : \E layouts \in [1..n -> SearchLayouts] :
          searchSheets = SearchState(layouts)
    /\ searchLoop = [pc |-> "while", panel |-> SearchPanel, todo |-> <<>>,
                     improved |-> TRUE, iterations |-> 0]

\* while (improved && iterations < maxIterations) { improved = false;
\* iterations++; ...
SearchWhile ==
    /\ searchLoop.pc = "while"
    /\ IF searchLoop.improved /\ searchLoop.iterations < maxIterations
       THEN searchLoop' = [searchLoop EXCEPT
                              !.pc = "body",
                              !.todo = HybridPairsFrom(searchSheets, 1, 2, 1, 1),
                              !.improved = FALSE,
                              !.iterations = @ + 1]
       ELSE searchLoop' = [searchLoop EXCEPT !.pc = "done"]
    /\ UNCHANGED <<searchSheets, managerVars, strategyVars, geneticVars,
                   preVars, concVars, kernelVars, crossVars>>

\* the body of the innermost loop for the next i, j, k, l
SearchTry ==
    /\ searchLoop.pc = "body"
    /\ searchLoop.todo # <<>>
    /\ LET t == Head(searchLoop.todo)
           r == HybridTrySwap(searchSheets, searchLoop.panel, t[1], t[2], t[3], t[4])
       IN  /\ searchSheets' = r.sheets
           /\ searchLoop' = [searchLoop EXCEPT
                                 !.todo = Tail(@),
                                 !.improved = @ \/ r.improved]
    /\ UNCHANGED <<managerVars, strategyVars, geneticVars, preVars, concVars,
                   kernelVars, crossVars>>

\* the four for loops have run through
SearchEndPass ==
    /\ searchLoop.pc = "body"
    /\ searchLoop.todo = <<>>
    /\ searchLoop' = [searchLoop EXCEPT !.pc = "while"]
    /\ UNCHANGED <<searchSheets, managerVars, strategyVars, geneticVars,
                   preVars, concVars, kernelVars, crossVars>>

NextSearch == SearchWhile \/ SearchTry \/ SearchEndPass

SpecSearch == InitSearch /\ [][NextSearch]_vars

-----------------------------------------------------------------------------
(* crossover(parent1, parent2, panel) of the genetic search, called on two *)
(* parents of two placements each.  The positions are those that the       *)
(* position mutation can leave a placement at, the sizes those of a 1x2    *)
(* piece as it is and turned; the second placement of a parent is a        *)
(* further unit of the first piece or the unit of a second piece.          *)

CrossPanels == {[width |-> 2, height |-> 2], [width |-> 3, height |-> 2]}

\* The PlacedPiece objects with one of the given identifiers.
CrossObjects(ids) ==
    {Placed(id, x, y, wh[1], wh[2], wh[1] = 2, 0) :
        id \in ids, x \in 0..1, y \in 0..1, wh \in {<<1, 2>>, <<2, 1>>}}

InitCross ==
    /\ IdleManager /\ IdleStrategy /\ IdleGenetic /\ IdlePre /\ IdleConc
    /\ IdleKernel /\ IdleSearch
    /\ \E a, c \in CrossObjects({"p1"}) : \E b, d \in CrossObjects({"p1", "p2"}) :
       \E panel \in CrossPanels, crossoverPoint \in 0..1 :
          crossArgs = [heap |-> <<a, b, c, d>>,
                       parent1 |-> evaluateIndividual(<<1, 2>>, <<a, b, c, d>>, panel),
                       parent2 |-> evaluateIndividual(<<3, 4>>, <<a, b, c, d>>, panel),
                       crossoverPoint |-> crossoverPoint,
                       panel |-> panel]
    /\ crossRet = [returned |-> FALSE]

\* const child = this.crossover(parent1, parent2, panel)
CrossCall ==
    /\ ~crossRet.returned
    /\ crossRet' =
          [returned |-> TRUE,
           child |-> crossover(crossArgs.parent1, crossArgs.parent2,
                               crossArgs.crossoverPoint, crossArgs.heap,
                               crossArgs.panel)]
    /\ UNCHANGED <<crossArgs, managerVars, strategyVars, geneticVars, preVars,
                   concVars, kernelVars, searchVars>>

NextCross == CrossCall

SpecCross == InitCross /\ [][NextCross]_vars

-----------------------------------------------------------------------------
(* Claims about the preprocessor, checked under SpecPre. *)

QuantitySum(ps) == SumSeq([i \in 1..Len(ps) |-> ps[i].quantity])

QuantityBefore(ps, k) == SumSeq([j \in 1..(k - 1) |-> ps[j].quantity])

\* The input piece that the i-th expanded piece is a copy of.
SourceOf(ps, i) ==
    CHOOSE k \in 1..Len(ps) :
        /\ QuantityBefore(ps, k) < i
        /\ i <= QuantityBefore(ps, k) + ps[k].quantity

\* C4: expandPieces returns exactly the sum of the quantities many pieces:
\* for each input piece of quantity N, N consecutive copies with quantity 1
\* and every other field equal to the source, in input order; the input list
\* is the same after the call as before it.
C4_ExpandExact ==
    preOp = "expanded" =>
        /\ Len(preOut) = QuantitySum(preIn)
        /\ \A i \in 1..Len(preOut) :
              preOut[i] = [preIn[SourceOf(preIn, i)] EXCEPT !.quantity = 1]
        /\ preIn = preArg

C4_Witness ==
    /\ preOp = "expanded"
    /\ Len(preIn) = 2
    /\ preIn[1].quantity = 2
    /\ preIn[2].quantity = 1
    /\ Len(preOut) = 3
    /\ preOut[2].id = preIn[1].id
    /\ preOut[3].id = preIn[2].id

\* C5: in the output of sortPiecesByPriority no piece is preceded by a piece
\* of lower priority, nor by a piece of equal priority and strictly smaller
\* area (a missing priority counts as 0).
C5_PriorityThenAreaDescending ==
    preOp = "sorted" =>
        \A i, j \in 1..Len(preOut) :
            i < j =>
                /\ ~(Prio(preOut[i]) < Prio(preOut[j]))
                /\ ~(/\ Prio(preOut[i]) = Prio(preOut[j])
                     /\ Area(preOut[i]) < Area(preOut[j]))

\* The pieces of s with the given priority and area, in their order in s.
SameKey(s, p, a) == SelectSeq(s, LAMBDA x : Prio(x) = p /\ Area(x) = a)

\* C6: sortPiecesByPriority is stable (pieces equal in priority and area keep
\* their relative input order) and idempotent (sorting an already sorted
\* list returns the same sequence).
C6_StableAndIdempotent ==
    /\ preOp \in {"sorted", "resorted"} =>
          \A x \in Range(preArg) :
              SameKey(preOut, Prio(x), Area(x)) = SameKey(preArg, Prio(x), Area(x))
    /\ preOp = "resorted" => preOut = preArg


-----------------------------------------------------------------------------
(* Claims about the results of the strategies and about the manager.       *)

\* The number of entries of a piece list that carry the identifier id.
CountId(ps, id) == Cardinality({i \in 1..Len(ps) : ps[i].id = id})

RequestIds == {request.pieces[i].id : i \in 1..Len(request.pieces)}

QuantityOfId(id) ==
    SumSeq([i \in 1..Len(request.pieces) |->
              IF request.pieces[i].id = id THEN request.pieces[i].quantity ELSE 0])

\* C1: every result that a strategy's execute returns has
\* usedArea <= totalArea and 0 <= efficiency <= 1.
C1_UsedWithinTotal ==
    ret.kind = "result" =>
        /\ ret.usedArea <= ret.totalArea
        /\ ret.efficiency.den > 0
        /\ 0 <= ret.efficiency.num
        /\ ret.efficiency.num <= ret.efficiency.den

InsidePanel(piece, panel) ==
    /\ piece.x >= 0
    /\ piece.y >= 0
    /\ piece.x + piece.width <= panel.width
    /\ piece.y + piece.height <= panel.height

Disjoint(a, b) ==
    \/ a.x + a.width <= b.x
    \/ b.x + b.width <= a.x
    \/ a.y + a.height <= b.y
    \/ b.y + b.height <= a.y

\* C2: in a returned result every placed piece lies inside the panel and no
\* two placed pieces of one sheetNumber overlap.
C2_InsideAndDisjoint ==
    ret.kind = "result" =>
        /\ \A i \in 1..Len(ret.placedPieces) :
              InsidePanel(ret.placedPieces[i], Panel)
        /\ \A i \in 1..Len(ret.placedPieces), j \in 1..Len(ret.placedPieces) :
              (i < j /\ ret.placedPieces[i].sheetNumber = ret.placedPieces[j].sheetNumber)
                  => Disjoint(ret.placedPieces[i], ret.placedPieces[j])

\* C3: piece conservation: in a returned result each unit piece of the
\* request is once in placedPieces or in unusedPieces, so for every
\* identifier the entries of both lists add up to the quantities requested
\* under it, and |placedPieces| + |unusedPieces| is the sum of quantities.
C3_PieceConservation ==
    ret.kind = "result" =>
        /\ Len(ret.placedPieces) + Len(ret.unusedPieces) = QuantitySum(request.pieces)
        /\ \A id \in RequestIds :
              CountId(ret.placedPieces, id) + CountId(ret.unusedPieces, id)
                  = QuantityOfId(id)

\* The request holds one unit piece, which fits the panel unrotated, and
\* sets kerf 0.
SingleFittingPiece ==
    /\ Len(request.pieces) = 1
    /\ request.pieces[1].quantity = 1
    /\ Len(request.panels) > 0
    /\ request.settings.kerf = 0
    /\ request.pieces[1].width <= Panel.width
    /\ request.pieces[1].height <= Panel.height

\* C7: First-Fit-Decreasing on a single unit piece that fits the panel
\* unrotated, kerf 0, places it at (0,0) unrotated on sheet 0 and returns
\* sheetCount 1, no unused piece and efficiency piece area / panel area.
C7_FfdSinglePiece ==
    (ret.kind = "result" /\ ret.algorithm = FFD /\ SingleFittingPiece) =>
        LET piece == request.pieces[1]
        IN  /\ ret.placedPieces =
                  <<Placed(piece.id, 0, 0, piece.width, piece.height, FALSE, 0)>>
            /\ ret.sheetCount = 1
            /\ ret.unusedPieces = <<>>
            /\ ret.efficiency.den # 0
            /\ ret.efficiency.num * (Panel.width * Panel.height)
                  = (piece.width * piece.height) * ret.efficiency.den

\* Scenario A returned by First-Fit-Decreasing: efficiency 5000 / 150000.
C7_Witness ==
    /\ request = ScenarioA
    /\ pc = "done"
    /\ outcome.algorithm = FFD
    /\ outcome.placedPieces = <<Placed("p1", 0, 0, 100, 50, FALSE, 0)>>
    /\ outcome.efficiency = [num |-> 5000, den |-> 150000]

\* Every orientation the piece is allowed exceeds the panel.
TooLarge(piece, panel) ==
    /\ piece.width > panel.width \/ piece.height > panel.height
    /\ piece.canRotate => (piece.height > panel.width \/ piece.width > panel.height)

\* C8: a piece that exceeds the panel in every allowed orientation is in
\* unusedPieces of the returned result and not in placedPieces, and no sheet
\* is opened for it: no sheet beyond the first is without a placed piece.
C8_TooLargeIsUnused ==
    ret.kind = "result" =>
        \A k \in 1..Len(request.pieces) :
            TooLarge(request.pieces[k], Panel) =>
                /\ CountId(ret.unusedPieces, request.pieces[k].id) > 0
                /\ CountId(ret.placedPieces, request.pieces[k].id) = 0
                /\ ret.sheetCount <= 1 \/ ret.sheetCount <= Len(ret.placedPieces)

\* The piece that First-Fit-Decreasing's loop takes next.
FfdNextPiece == sortedPieces[pieceIdx + 1]

FitsRect(piece, space) == piece.width <= space.width /\ piece.height <= space.height

\* C9: in First-Fit-Decreasing a piece that fits no free rectangle of any
\* open sheet but fits an empty panel is placed at (0,0) of a newly
\* appended sheet, the number of sheets growing by one; and two 100x100
\* pieces, kerf 0, on a 150x100 panel give sheetCount 2, one piece a sheet.
C9_NewSheetWhenNoOpenSheetFits ==
    /\ [][(/\ pc = "running" /\ algorithm = FFD
           /\ pieceIdx < Len(sortedPieces)
           /\ pieceIdx' = pieceIdx + 1
           /\ \A i \in 1..Len(sheets) : \A k \in 1..Len(sheets[i].availableSpace) :
                 ~FitsRect(FfdNextPiece, sheets[i].availableSpace[k])
           /\ FitsRect(FfdNextPiece, Panel))
          => (/\ Len(sheets') = Len(sheets) + 1
              /\ SubSeq(sheets', 1, Len(sheets)) = sheets
              /\ sheets'[Len(sheets')].placedPieces =
                    <<Placed(FfdNextPiece.id, 0, 0, FfdNextPiece.width,
                             FfdNextPiece.height, FALSE, Len(sheets))>>)]_vars
    /\ []((request = ScenarioC /\ ret.kind = "result" /\ ret.algorithm = FFD)
            => (/\ ret.sheetCount = 2
                /\ Len(ret.placedPieces) = 2
                /\ ret.placedPieces[1].sheetNumber = 0
                /\ ret.placedPieces[2].sheetNumber = 1))

\* The preferred name was passed and is not in the registry.
UnknownPreferred == preferred # "" /\ preferred \notin Registered

\* C10: a call with a preferred name that is not registered executes the
\* default strategy, beam_search_guillotine, first, and ends as the call
\* without a preferred name ends: with the same result or the same error.
C10_UnknownNameIsDefault ==
    UnknownPreferred =>
        /\ (pc = "execute" /\ attempted = <<>>) => algorithm = BEAM
        /\ attempted # <<>> => attempted[1] = BEAM
        /\ pc \in {"done", "failed"} => outcome = executeWithFallback(request, "")

\* A call with the name "simulated_annealing" returned beam search's result.
C10_Witness ==
    /\ preferred = "simulated_annealing"
    /\ pc = "done"
    /\ outcome.algorithm = BEAM
    /\ Len(outcome.placedPieces) = 1
    /\ outcome = executeWithFallback(request, "")

\* validateAlgorithmCompatibility of lib/algorithms/index.ts as a predicate:
\* the strategy is not refused for the request's rotation flags or for the
\* total piece area, which needs several sheets when above 0.8 panel areas.
RequiresRotation == \E i \in 1..Len(request.pieces) : request.pieces[i].canRotate

TotalPieceArea ==
    SumSeq([i \in 1..Len(request.pieces) |->
              request.pieces[i].height * request.pieces[i].width
                  * request.pieces[i].quantity])

NeedsMultipleSheets ==
    /\ Len(request.panels) > 0
    /\ 10 * TotalPieceArea > 8 * (Panel.height * Panel.width)

Compatible(name) ==
    /\ RequiresRotation => supportsRotation(name)
    /\ NeedsMultipleSheets => supportsMultiSheet(name)

\* C11: the manager validates compatibility before it executes a strategy:
\* execute is never called on a strategy that the request is incompatible
\* with; in particular first_fit_decreasing is never executed for a request
\* with a piece that has canRotate set, and no result of it is returned.
C11_ValidatedBeforeExecute ==
    /\ \A k \in 1..Len(attempted) : Compatible(attempted[k])
    /\ (RequiresRotation /\ pc = "done") => outcome.algorithm # FFD

\* The priority order without the strategy that was executed first.
RemainingAfter(first) == SelectSeq(algorithmPriority, LAMBDA name : name # first)

\* C12: after the first strategy raised, the strategies executed are the
\* ones not yet executed in this call, in priority order: none is executed
\* twice, none is skipped before the call gives up, and the call returns
\* the result of the first one that succeeds, executing none after it.
C12_RemainingInPriorityOrder ==
    attempted # <<>> =>
        /\ \A i \in 1..Len(attempted), j \in 1..Len(attempted) :
              i # j => attempted[i] # attempted[j]
        /\ Len(attempted) - 1 <= Len(RemainingAfter(attempted[1]))
        /\ Tail(attempted) =
              SubSeq(RemainingAfter(attempted[1]), 1, Len(attempted) - 1)
        /\ pc = "failed" => Len(attempted) = Len(algorithmPriority)
        /\ pc = "done" => outcome.algorithm = attempted[Len(attempted)]

\* C13: when every strategy the call executed raised, the call raises the
\* exhaustion error and returns no result, and the error names the failure
\* of the strategy executed last (ret, when the loop is exhausted).
C13_ExhaustionNamesLastFailure ==
    /\ pc = "done" => (ret.kind = "result" /\ outcome = ret)
    /\ (pc = "failed" /\ attempted # <<>>) =>
          /\ outcome.kind = "error"
          /\ outcome.message = "All algorithms failed"
          /\ ret.kind = "error"
          /\ outcome.lastError = ret.message

-----------------------------------------------------------------------------
(* C14: concurrent calls are independent.  Under any interleaving of two   *)
(* executeWithFallback calls at their await points, the singleton manager, *)
(* once constructed, keeps its registry, its priority array and its        *)
(* strategy instances as the constructor left them; a step of one call     *)
(* leaves the other call, and the requests of both, as they were; and a    *)
(* call that has ended has returned or raised what executeWithFallback     *)
(* returns or raises for its request and its preferred name alone.         *)

Ended(c) == calls[c].pc \in {"done", "failed"}

C14_RegistryKept ==
    manager.instance => manager = registerDefaultAlgorithms

C14_AsAlone ==
    \A c \in DOMAIN calls :
        Ended(c) => calls[c].outcome =
                       executeWithFallback(calls[c].request, calls[c].preferred)

C14_StepsOwnCallOnly ==
    \A c \in DOMAIN calls :
        calls'[c] # calls[c] =>
            /\ \A d \in DOMAIN calls \ {c} : calls'[d] = calls[d]
            /\ calls'[c].request = calls[c].request
            /\ calls'[c].preferred = calls[c].preferred
            /\ manager.instance => manager' = manager

C14_ConcurrentCallsIndependent ==
    /\ [](C14_RegistryKept /\ C14_AsAlone)
    /\ [][C14_StepsOwnCallOnly]_vars

\* Both calls have ended after running interleaved, on different requests:
\* one returned its first strategy's result, the other went through the
\* fallback loop.
C14_Witness ==
    /\ DOMAIN calls = Calls
    /\ \A c \in Calls : Ended(c) /\ calls[c].overlapped
    /\ calls["a"].request # calls["b"].request
    /\ Len(calls["a"].attempted) = 1 /\ calls["a"].pc = "done"
    /\ Len(calls["b"].attempted) > 1

-----------------------------------------------------------------------------
(* C15: free area is kept by a placement.  With kerf 0, after a strategy   *)
(* has placed a piece at the corner of a free rectangle, the strips of     *)
(* that rectangle right of and below the piece stay in the sheet's free    *)
(* list: on every sheet (and in every beam candidate) each point of the    *)
(* panel is covered by a placed piece or by a free rectangle.              *)

\* The unit cell at (x, y) lies in the rectangle r.
CellIn(x, y, r) ==
    /\ r.x <= x /\ x < r.x + r.width
    /\ r.y <= y /\ y < r.y + r.height

\* The left and lower edges of the rectangles, and of the panel.
XEdges(rects) ==
    {0} \cup {rects[k].x : k \in 1..Len(rects)}
        \cup {rects[k].x + rects[k].width : k \in 1..Len(rects)}
YEdges(rects) ==
    {0} \cup {rects[k].y : k \in 1..Len(rects)}
        \cup {rects[k].y + rects[k].height : k \in 1..Len(rects)}

\* Every cell of the panel is in a placed piece or in a free rectangle; it
\* is enough to look at the cells at the crossings of the rectangles' edges.
AreaAccounted(placedPieces, free, panel) ==
    LET rects == placedPieces \o free
    IN  \A x \in XEdges(rects), y \in YEdges(rects) :
           (x < panel.width /\ y < panel.height) =>
              \/ \E k \in 1..Len(placedPieces) : CellIn(x, y, placedPieces[k])
              \/ \E k \in 1..Len(free) : CellIn(x, y, free[k])

C15_FreeAreaKept ==
    (pc = "running" /\ request.settings.kerf = 0) =>
        /\ algorithm \in {FFD, HYBRID} =>
              \A i \in 1..Len(sheets) :
                 AreaAccounted(sheets[i].placedPieces,
                               sheets[i].availableSpace, Panel)
        /\ algorithm = BEAM =>
              \A i \in 1..Len(beam) :
                 AreaAccounted(beam[i].placedPieces,
                               beam[i].availableSpaces, Panel)

-----------------------------------------------------------------------------
(* C16: the kernel's splitSpace.  Every rectangle it returns is disjoint   *)
(* from usedRect and contained in one of the input free rectangles; every  *)
(* input free rectangle that does not overlap usedRect and has both        *)
(* dimensions > kerf is returned unchanged; and for each input free        *)
(* rectangle overlapping usedRect the returned children are exactly the    *)
(* non-empty strips above, below, left and right of usedRect clipped to    *)
(* that rectangle.                                                         *)

\* The rectangle inner lies within the rectangle outer.
Contained(inner, outer) ==
    /\ outer.x <= inner.x /\ inner.x + inner.width <= outer.x + outer.width
    /\ outer.y <= inner.y /\ inner.y + inner.height <= outer.y + outer.height

\* The rectangle between two corners, empty when they are not in order.
Between(x1, y1, x2, y2) == Rect(x1, y1, x2 - x1, y2 - y1)

NonEmpty(r) == r.width > 0 /\ r.height > 0

\* The four strips of the free rectangle F beside the used rectangle U,
\* clipped to F: F below U's lower edge, beyond its upper edge, before its
\* left edge and beyond its right edge.
Strips(F, U) ==
    { Between(F.x, F.y, F.x + F.width, U.y),
      Between(F.x, U.y + U.height, F.x + F.width, F.y + F.height),
      Between(F.x, F.y, U.x, F.y + F.height),
      Between(U.x + U.width, F.y, F.x + F.width, F.y + F.height) }

WiderThanKerf(r) ==
    r.width > kernelArgs.kerf /\ r.height > kernelArgs.kerf

\* What the call is to return, the strips kept being those that satisfy
\* Keep.
SplitExpected(Keep(_)) ==
    LET spaces == kernelArgs.availableSpaces
        U == kernelArgs.usedSpace
    IN  UNION { IF rectanglesOverlap(spaces[j], U)
                THEN {r \in Strips(spaces[j], U) : Keep(r)}
                ELSE IF WiderThanKerf(spaces[j]) THEN {spaces[j]} ELSE {}
                : j \in 1..Len(spaces) }

C16_DisjointAndContained ==
    \A k \in 1..Len(kernelRet.spaces) :
        /\ ~rectanglesOverlap(kernelRet.spaces[k], kernelArgs.usedSpace)
        /\ \E j \in 1..Len(kernelArgs.availableSpaces) :
              Contained(kernelRet.spaces[k], kernelArgs.availableSpaces[j])

-----------------------------------------------------------------------------
(* C17: settings.kerf is honoured by every strategy's free-space update.   *)
(* After each placement, no free rectangle kept on a sheet (or in a beam   *)
(* candidate) has width <= settings.kerf or height <= settings.kerf.       *)

AllWiderThan(free, kerf) ==
    \A k \in 1..Len(free) : free[k].width > kerf /\ free[k].height > kerf

C17_KerfHonoured ==
    pc = "running" =>
        /\ algorithm \in {FFD, HYBRID} =>
              \A i \in 1..Len(sheets) :
                 sheets[i].placedPieces # <<>> =>
                    AllWiderThan(sheets[i].availableSpace, request.settings.kerf)
        /\ algorithm = BEAM =>
              \A i \in 1..Len(beam) :
                 beam[i].placedPieces # <<>> =>
                    AllWiderThan(beam[i].availableSpaces, request.settings.kerf)

-----------------------------------------------------------------------------
(* C18: in the beam search a candidate that cannot place its current piece *)
(* in any of its free rectangles survives into the next beam step with     *)
(* that piece carried in its remaining-piece list exactly once: the next   *)
(* beam holds a candidate with the same placed pieces and the same         *)
(* remaining pieces, none lost and none twice.                             *)

\* The number of positions of the sequence s that hold x.
Occurrences(x, s) == Cardinality({k \in 1..Len(s) : s[k] = x})

\* The sequences a and b hold the same elements the same number of times.
SameElements(a, b) ==
    \A x \in Range(a) \cup Range(b) : Occurrences(x, a) = Occurrences(x, b)

\* The candidate has a current piece and no free rectangle takes it.
CannotPlaceCurrent(node) ==
    /\ node.pieces # <<>>
    /\ \A k \in 1..Len(node.availableSpaces) :
          /\ ~canPlacePiece(Head(node.pieces), node.availableSpaces[k], FALSE)
          /\ ~(/\ Head(node.pieces).canRotate
               /\ canPlacePiece(Head(node.pieces), node.availableSpaces[k], TRUE))

C18_UnplaceablePieceCarriedOnce ==
    [][(/\ pc = "running" /\ algorithm = BEAM
        /\ depth' = depth + 1)
       => \A i \in 1..Len(beam) :
             CannotPlaceCurrent(beam[i]) =>
                \E j \in 1..Len(beam') :
                   /\ beam'[j].placedPieces = beam[i].placedPieces
                   /\ SameElements(beam'[j].pieces, beam[i].pieces)]_vars

-----------------------------------------------------------------------------
(* C19: the beam search, given a request with a panel and several unit     *)
(* pieces of which at least one fits the panel, returns a result (it does  *)
(* not raise) with at least one placed piece, 0 < efficiency <= 1 and      *)
(* sheetCount > 0.                                                         *)

\* The piece fits the empty panel, turned if it may be.
FitsPanel(piece, panel) ==
    \/ canPlacePiece(piece, Rect(0, 0, panel.width, panel.height), FALSE)
    \/ /\ piece.canRotate
       /\ canPlacePiece(piece, Rect(0, 0, panel.width, panel.height), TRUE)

\* The beam search has ended on several unit pieces, one of which fits.
BeamEndedOnSeveral ==
    /\ pc = "returned" /\ algorithm = BEAM
    /\ Len(request.panels) > 0
    /\ Len(pieces) >= 2
    /\ \E k \in 1..Len(pieces) : FitsPanel(pieces[k], Panel)

C19_BeamReturnsOnSeveralPieces ==
    BeamEndedOnSeveral =>
        /\ ret.kind = "result"
        /\ Len(ret.placedPieces) >= 1
        /\ 0 < ret.efficiency.num /\ ret.efficiency.num <= ret.efficiency.den
        /\ ret.sheetCount > 0

-----------------------------------------------------------------------------
(* C20: every strategy terminates on every finite request.  No call runs   *)
(* for ever: every step of a call lowers a measure that is a natural       *)
(* number.  The beam search makes an expansion step only while fewer than  *)
(* n steps were made (n the number of unit pieces) and the beam is not     *)
(* empty, and after a step the beam holds at most beamWidth = 10           *)
(* candidates.  The hybrid local search makes at most maxIterations = 100  *)
(* passes.  The genetic search makes at most this.generations generations  *)
(* (100 in the code, GenerationBound here), and every generation leaves a  *)
(* population of the size of the one before (this.populationSize, 50 in    *)
(* the code, PopulationBound here).                                        *)

Terminated == pc \in {"done", "failed"}

\* The steps the loop of the running strategy can still make.
InnerSteps ==
    CASE algorithm = FFD -> Len(sortedPieces) - pieceIdx
      [] algorithm = HYBRID -> Len(pieces) - pieceIdx
      [] algorithm = BEAM -> Len(pieces) - depth
      [] algorithm = GENETIC ->
            (GenerationBound - generation) * (Len(population) + 1)
            - Len(newPopulation)
      [] OTHER -> 0

\* No loop of a strategy makes more steps than this on the request.
InnerBound ==
    QuantitySum(request.pieces) + GenerationBound * (PopulationBound + 1)

\* The strategies that can still be started once the one at hand has ended.
AttemptsLeft ==
    IF firstError = "none" THEN Len(algorithmPriority) - 1
    ELSE Len(fallbackLeft)

\* The steps a call can still make, at most.
Measure ==
    IF Terminated THEN 0
    ELSE AttemptsLeft * (InnerBound + 5)
         + (CASE pc = "start" -> InnerBound + 5
              [] pc = "execute" -> InnerBound + 4
              [] pc \in {"running", "evolving"} -> 3 + InnerSteps
              [] pc = "returned" -> 2
              [] pc = "fallback" -> 1
              [] OTHER -> 0)

C20_Bounds ==
    /\ Measure >= 0
    /\ (pc = "running" /\ algorithm = BEAM) =>
          /\ depth <= Len(pieces)
          /\ Len(beam) <= beamWidth
    /\ (pc = "running" /\ algorithm = HYBRID /\ pieceIdx = Len(pieces)) =>
          HybridPassesFrom(sheets, Panel, 0) <= maxIterations
    /\ (pc \in {"running", "evolving"} /\ algorithm = GENETIC) =>
          /\ generation <= GenerationBound
          /\ Len(population) = PopulationBound
          /\ Len(newPopulation) <= Len(population)

C20_Steps ==
    /\ Measure' < Measure
    /\ (algorithm = BEAM /\ depth' = depth + 1) =>
          (beam # <<>> /\ depth < Len(pieces))
    /\ (algorithm = GENETIC /\ generation' = generation + 1) =>
          Len(population') = Len(population)

C20_StrategiesTerminate ==
    /\ []C20_Bounds
    /\ [][C20_Steps]_vars

\* The genetic search has returned after the last of its generations,
\* without having converged before.
C20_Witness ==
    /\ pc = "done"
    /\ algorithm = GENETIC
    /\ generation = GenerationBound
    /\ Len(population) = PopulationBound

-----------------------------------------------------------------------------
(* C21: the free rectangle First-Fit-Decreasing chooses.                   *)

\* findBestFit's waste of a free rectangle for a piece that is not turned
Waste(piece, space) ==
    (space.width - piece.width) * (space.height - piece.height)

\* <<sheet, free rectangle>> of every open sheet that the next piece fits
FfdFeasible ==
    {ik \in UNION {{<<i, k>> : k \in 1..Len(sheets[i].availableSpace)} : i \in 1..Len(sheets)} :
        FitsRect(FfdNextPiece, sheets[ik[1]].availableSpace[ik[2]])}

\* C21: First-Fit-Decreasing places each piece in the feasible free
\* rectangle of minimum waste taken over the free rectangles of all open
\* sheets: a piece that fits two open sheets goes to the sheet whose fitting
\* free rectangle has the smaller waste.
C21_MinimumWasteOverAllSheets ==
    [][(/\ pc = "running" /\ algorithm = FFD
        /\ pieceIdx < Len(sortedPieces)
        /\ pieceIdx' = pieceIdx + 1
        /\ FfdFeasible # {})
       => \E ik \in FfdFeasible :
            LET space == sheets[ik[1]].availableSpace[ik[2]]
            IN  /\ \A jl \in FfdFeasible :
                      Waste(FfdNextPiece, space)
                         <= Waste(FfdNextPiece, sheets[jl[1]].availableSpace[jl[2]])
                /\ Len(sheets') = Len(sheets)
                /\ sheets'[ik[1]].placedPieces =
                      Append(sheets[ik[1]].placedPieces,
                             Placed(FfdNextPiece.id, space.x, space.y,
                                    FfdNextPiece.width, FfdNextPiece.height,
                                    FALSE, ik[1] - 1))]_vars

\* The same within one sheet: the piece goes to the first open sheet with a
\* feasible free rectangle, and there to one of minimum waste.
FfdFirstSheetMinimumWaste ==
    [][(/\ pc = "running" /\ algorithm = FFD
        /\ pieceIdx < Len(sortedPieces)
        /\ pieceIdx' = pieceIdx + 1
        /\ FfdFeasible # {})
       => \E ik \in FfdFeasible :
            LET space == sheets[ik[1]].availableSpace[ik[2]]
            IN  /\ \A jl \in FfdFeasible :
                      /\ jl[1] >= ik[1]
                      /\ jl[1] = ik[1] =>
                            Waste(FfdNextPiece, space)
                               <= Waste(FfdNextPiece, sheets[jl[1]].availableSpace[jl[2]])
                /\ Len(sheets') = Len(sheets)
                /\ sheets'[ik[1]].placedPieces =
                      Append(sheets[ik[1]].placedPieces,
                             Placed(FfdNextPiece.id, space.x, space.y,
                                    FfdNextPiece.width, FfdNextPiece.height,
                                    FALSE, ik[1] - 1))]_vars

-----------------------------------------------------------------------------
(* C22: First-Fit-Decreasing and rotation.                                 *)

\* The piece of the request that a placement was made from.
SourcePiece(placed) ==
    CHOOSE p \in Range(request.pieces) : p.id = placed.id

\* C22: First-Fit-Decreasing never rotates a piece: in every result it
\* returns every placed piece has rotated = false and the width and height
\* of its source piece, whatever the pieces' canRotate flags.
C22_FfdNeverRotates ==
    (ret.kind = "result" /\ ret.algorithm = FFD) =>
        \A k \in 1..Len(ret.placedPieces) :
            /\ ret.placedPieces[k].rotated = FALSE
            /\ ret.placedPieces[k].width = SourcePiece(ret.placedPieces[k]).width
            /\ ret.placedPieces[k].height = SourcePiece(ret.placedPieces[k]).height

\* The same for requests none of whose pieces may be turned.
FfdKeepsOrientationOfFixedPieces ==
    (/\ ret.kind = "result" /\ ret.algorithm = FFD
     /\ \A p \in Range(request.pieces) : ~p.canRotate) =>
        \A k \in 1..Len(ret.placedPieces) :
            /\ ret.placedPieces[k].rotated = FALSE
            /\ ret.placedPieces[k].width = SourcePiece(ret.placedPieces[k]).width
            /\ ret.placedPieces[k].height = SourcePiece(ret.placedPieces[k]).height

-----------------------------------------------------------------------------
(* C23: the constructive phase of the hybrid search.                       *)

\* The piece that constructivePlacement's loop takes next.
HybridNextPiece == pieces[pieceIdx + 1]

\* The piece fits the first free rectangle of no open sheet, in no
\* orientation it may take.
FitsNoOpenSheet(piece) ==
    \A i \in 1..Len(sheets) :
        \/ Len(sheets[i].availableSpace) = 0
        \/ /\ ~canPlacePiece(piece, sheets[i].availableSpace[1], FALSE)
           /\ ~(piece.canRotate /\ canPlacePiece(piece, sheets[i].availableSpace[1], TRUE))

\* C23: in the constructive phase of the hybrid search a piece stays
\* unplaced only if it does not fit an empty sheet: a piece that cannot be
\* placed on the current or any other open sheet but fits an empty panel
\* opens a new sheet and is placed there, so every input piece that fits an
\* empty panel is in placedPieces of the result.
C23_UnplacedOnlyIfTooLarge ==
    /\ [][(/\ pc = "running" /\ algorithm = HYBRID
           /\ pieceIdx < Len(pieces)
           /\ pieceIdx' = pieceIdx + 1
           /\ FitsNoOpenSheet(HybridNextPiece)
           /\ FitsRect(HybridNextPiece, Panel))
          => (/\ Len(sheets') = Len(sheets) + 1
              /\ sheets'[Len(sheets')].placedPieces =
                    <<Placed(HybridNextPiece.id, 0, 0, HybridNextPiece.width,
                             HybridNextPiece.height, FALSE, Len(sheets))>>)]_vars
    /\ []((ret.kind = "result" /\ ret.algorithm = HYBRID) =>
             \A k \in 1..Len(request.pieces) :
                 FitsRect(request.pieces[k], Panel) =>
                     CountId(ret.placedPieces, request.pieces[k].id) > 0)

-----------------------------------------------------------------------------
(* C24: the exchanges of the hybrid local search, checked under SpecSearch. *)

\* The sheets with the positions of piece k of sheet i and piece l of sheet
\* j exchanged.
Exchanged(sh, i, k, j, l) ==
    [sh EXCEPT ![i].placedPieces[k].x = sh[j].placedPieces[l].x,
               ![i].placedPieces[k].y = sh[j].placedPieces[l].y,
               ![j].placedPieces[l].x = sh[i].placedPieces[k].x,
               ![j].placedPieces[l].y = sh[i].placedPieces[k].y]

\* Piece k of sheet i lies within the panel and overlaps none of the pieces
\* of sheet j other than the l-th.
FeasibleAt(sh, panel, i, k, j, l) ==
    /\ InsidePanel(sh[i].placedPieces[k], panel)
    /\ \A m \in 1..Len(sh[j].placedPieces) :
          m # l => ~rectanglesOverlap(sh[i].placedPieces[k], sh[j].placedPieces[m])

\* The exchange of piece k of sheet i and piece l of sheet j may be committed.
MayCommit(sh, panel, i, k, j, l) ==
    LET ex == Exchanged(sh, i, k, j, l)
    IN  /\ FeasibleAt(ex, panel, i, k, j, l)
        /\ FeasibleAt(ex, panel, j, l, i, k)
        /\ FractionGreater(HybridEfficiency(<<ex[i], ex[j]>>, panel),
                           HybridEfficiency(<<sh[i], sh[j]>>, panel))

SearchKeepsSheetsAndSizes ==
    [][/\ Len(searchSheets') = Len(searchSheets)
       /\ \A i \in 1..Len(searchSheets) :
             /\ Len(searchSheets'[i].placedPieces) = Len(searchSheets[i].placedPieces)
             /\ \A k \in 1..Len(searchSheets[i].placedPieces) :
                   LET a == searchSheets[i].placedPieces[k]
                       b == searchSheets'[i].placedPieces[k]
                   IN  /\ a.id = b.id /\ a.width = b.width /\ a.height = b.height
                       /\ a.sheetNumber = b.sheetNumber
       /\ searchLoop.pc = "body" => ~searchLoop'.improved]_vars

-----------------------------------------------------------------------------
(* C25: the child of a crossover, checked under SpecCross.                 *)

\* The placements of the child before validation: the two slices joined
\* and the duplicates removed.
CrossUnique ==
    removeDuplicatePlacements(
        SubSeq(crossArgs.parent1.placements, 1, crossArgs.crossoverPoint)
        \o SubSeq(crossArgs.parent2.placements, crossArgs.crossoverPoint + 1,
                  Len(crossArgs.parent2.placements)),
        crossArgs.heap, {})

\* The placements of the child that crossover returned.
CrossKept == crossRet.child.placements

\* C25: the placement list of a child after crossover, duplicate removal
\* and validation contains only placements that lie within the panel on
\* both axes (x + width <= panel.width and y + height <= panel.height) and
\* are pairwise non-overlapping; every placement violating either condition
\* is dropped and no in-bounds, non-overlapping placement is dropped for
\* being out of bounds.
C25_ChildInBoundsAndDisjoint ==
    crossRet.returned =>
        /\ \A k \in 1..Len(CrossKept) :
              InsidePanel(crossArgs.heap[CrossKept[k]], crossArgs.panel)
        /\ \A k, m \in 1..Len(CrossKept) :
              k < m => ~piecesOverlap(crossArgs.heap[CrossKept[k]],
                                      crossArgs.heap[CrossKept[m]])
        /\ \A u \in 1..Len(CrossUnique) :
              (/\ InsidePanel(crossArgs.heap[CrossUnique[u]], crossArgs.panel)
               /\ \A k \in 1..Len(CrossKept) :
                     CrossKept[k] # CrossUnique[u] =>
                        ~piecesOverlap(crossArgs.heap[CrossUnique[u]],
                                       crossArgs.heap[CrossKept[k]]))
              => \E k \in 1..Len(CrossKept) : CrossKept[k] = CrossUnique[u]

\* What validation does ensure: the child's placements are pairwise
\* non-overlapping and lie within the panel's width.
CrossChildDisjointAndInsideWidth ==
    crossRet.returned =>
        /\ \A k \in 1..Len(CrossKept) :
              /\ crossArgs.heap[CrossKept[k]].x + crossArgs.heap[CrossKept[k]].width
                    <= crossArgs.panel.width
              /\ crossArgs.heap[CrossKept[k]].y + crossArgs.heap[CrossKept[k]].width
                    <= crossArgs.panel.width
        /\ \A k, m \in 1..Len(CrossKept) :
              k < m => ~piecesOverlap(crossArgs.heap[CrossKept[k]],
                                      crossArgs.heap[CrossKept[m]])

-----------------------------------------------------------------------------
(* C26: elitism, checked under SpecGenetic.                                *)

\* The PlacedPiece objects of an individual as they are in the heap hp.
PlacementsOf(individual, hp) ==
    [k \in 1..Len(individual.placements) |-> hp[individual.placements[k]]]

\* C26: in each generation the individual of highest fitness is carried
\* into the next population unchanged: its placements (positions, sizes,
\* rotated flags) at the end of evolvePopulation are those before it, and
\* no crossover or mutation applied to another individual of that
\* generation alters them.
C26_EliteUnchanged ==
    [][(/\ pc = "evolving"
        /\ Len(newPopulation') = Len(newPopulation) + 1)
       => (/\ newPopulation'[1].placements = newPopulation[1].placements
           /\ PlacementsOf(newPopulation'[1], heap')
                 = PlacementsOf(newPopulation[1], heap))]_vars

\* What a child's crossover and mutation leave alone: the elite's array of
\* placements, and every object that the child does not refer to.
GeneticChildWritesOwnObjectsOnly ==
    [][(/\ pc = "evolving"
        /\ Len(newPopulation') = Len(newPopulation) + 1)
       => (/\ SubSeq(newPopulation', 1, Len(newPopulation)) = newPopulation
           /\ \A r \in 1..Len(heap) :
                 heap'[r] # heap[r] =>
                     r \in Range(newPopulation'[Len(newPopulation')].placements))]_vars

-----------------------------------------------------------------------------
(* C27: the areas of a result, checked under SpecAll.                      *)

\* The areas, the efficiency and the sheet numbers of a result agree.
AreasConsistent(result, panel) ==
    /\ result.totalArea = result.sheetCount * (panel.width * panel.height)
    /\ result.usedArea = UsedArea(result.placedPieces)
    /\ result.wastedArea = result.totalArea - result.usedArea
    /\ result.efficiency.num * result.totalArea
          = result.usedArea * result.efficiency.den
    /\ \A k \in 1..Len(result.placedPieces) :
          /\ result.placedPieces[k].sheetNumber >= 0
          /\ result.placedPieces[k].sheetNumber < result.sheetCount

\* C27: area accounting is consistent in every result of every strategy:
\* totalArea = sheetCount x (panel width x panel height), usedArea = sum of
\* width x height over placedPieces, wastedArea = totalArea - usedArea,
\* efficiency = usedArea / totalArea, and every placed piece's sheetNumber
\* is one of the sheetCount sheets.
C27_AreaAccounting ==
    ret.kind = "result" => AreasConsistent(ret, Panel)

\* The same for the results of the three strategies other than the genetic
\* search.
AreaAccountingOutsideGenetic ==
    (ret.kind = "result" /\ ret.algorithm # GENETIC) => AreasConsistent(ret, Panel)

-----------------------------------------------------------------------------
(* C28: when the beam search returns.                                      *)

\* The beam search has ended on a request with a panel; pieces is the list
\* of unit pieces it ran on.
BeamEnded == pc = "returned" /\ algorithm = BEAM /\ Len(request.panels) > 0

\* The beam search raises on two or more unit pieces and on a first piece
\* that fits the panel in no allowed orientation, the beam being empty.
BeamRaisesOnSeveralOrTooLarge ==
    (/\ BeamEnded
     /\ Len(pieces) >= 2 \/ (Len(pieces) = 1 /\ ~FitsPanel(pieces[1], Panel)))
    => (beam = <<>> /\ ret = Raise("No valid solution found"))

\* C28: the beam search returns a result only when the request expands to
\* at most one unit piece: for every request with two or more unit pieces
\* (whatever their sizes) and for every request whose first piece fits the
\* panel in no allowed orientation the beam becomes empty and execute
\* raises 'No valid solution found'; whenever it does return, unusedPieces
\* is empty.
C28_BeamReturnsOnlyOnOnePiece ==
    /\ BeamRaisesOnSeveralOrTooLarge
    /\ (BeamEnded /\ ret.kind = "result") =>
          (Len(pieces) <= 1 /\ ret.unusedPieces = <<>>)

\* What the beam search returns on one unit piece that fits: the piece
\* placed, and the same piece as unused.
BeamListsPlacedPieceAsUnused ==
    (BeamEnded /\ ret.kind = "result") =>
        /\ Len(pieces) <= 1
        /\ ret.unusedPieces = pieces
        /\ Len(ret.placedPieces) = Len(pieces)

-----------------------------------------------------------------------------
(* C29: the hybrid search on one sheet.                                    *)

\* The constructive phase of the hybrid search is running.
HybridRunning == pc = "running" /\ algorithm = HYBRID

C29_OneSheet ==
    /\ HybridRunning =>
          /\ Len(sheets) = 1
          /\ sheets[1].availableSpace
                \in {<<Rect(0, 0, Panel.width, Panel.height)>>, <<>>}
          /\ Len(sheets[1].placedPieces) <= 1
    /\ (ret.kind = "result" /\ ret.algorithm = HYBRID) =>
          (ret.sheetCount = 1 /\ Len(ret.placedPieces) <= 1)

C29_SkipsAfterFirstPlacement ==
    (/\ HybridRunning
     /\ pieceIdx' = pieceIdx + 1
     /\ sheets[1].placedPieces # <<>>)
    => sheets' = sheets

-----------------------------------------------------------------------------
(* C30: a call without a preferred strategy, as optimizeHandler makes it.  *)

\* executeWithFallback(request) on a request with a panel
DefaultCallWithPanel == preferred = "" /\ Len(request.panels) > 0

====
